---- MODULE Spec2Model ----
(***************************************************************************)
(* Workflow orchestrators of the ai-slack-bot prototypes.                  *)
(*                                                                         *)
(*   agents      src/agents/agent/workflow_manager.py (create_workflow_    *)
(*               graph) driven by src/agents/client/agent.py               *)
(*   mcp_server  src/ai_agent/agents/mcp_server.py (MCPServer graph)       *)
(*   poller      src/ai_agent/main.py (poll_elasticmq / process_mention)   *)
(*   api         src/ai_agent/api.py (handle_mention + startup poller)     *)
(*   mcp_client  src/ai_agent_v2/mcp-client/core/graph.py (GraphManager)   *)
(*               and agents/slack_agent.py (_summarize_content)            *)
(*   langchain_mcp  src/ai_agent_v2/langchain_mcp/core/workflow_manager.py *)
(*               (create_workflow_graph)                                   *)
(*   services    src/ai_agent/services (NotionService.create_task,         *)
(*               DBService pool) and src/ai_agent_v2/mcp-client/client.py  *)
(*               (cross-server query, thread reply)                        *)
(*                                                                         *)
(* One behaviour follows one of these programs; `sys` says which.          *)
(***************************************************************************)
EXTENDS Integers, Sequences, FiniteSets, TLC

VARIABLES
    sys,            \* which program this behaviour follows
    \* ---- agents workflow ------------------------------------------------
    state,          \* agent.state.State threaded through the graph
    node,           \* node the compiled graph runs next ("END" when done)
    trace,          \* nodes executed so far, in order
    slack_sends,    \* texts handed to SlackAgent.send_message, in order
    db_calls,       \* one record per DatabaseAgent.execute call
    needs_task,     \* the request's task-creation need (no State field holds it)
    \* ---- ai_agent: MCPServer graph (api background task) ----------------
    srv_state,      \* AgentState threaded through MCPServer.graph
    srv_node,       \* node MCPServer.graph runs next ("idle" before, "END" after)
    srv_trace,      \* MCPServer nodes executed so far
    \* ---- ai_agent: api.py ------------------------------------------------
    api_pc,         \* position of the POST /process-mention request
    queue,          \* messages held by the ElasticMQ queue
    cl_pc,          \* position of the MCPClient.run poller started at startup
    cl_batch,       \* messages the poller has received and not yet handled
    cl_analysis,    \* TaskAnalysisResult of the message the poller handles
    \* ---- ai_agent: main.py ----------------------------------------------
    poll_pc,        \* position of poll_elasticmq
    mentions,       \* per queued mention: its text class and process_mention's progress
    shutdown_flag,  \* main.py's global, set by handle_shutdown
    \* ---- mcp-client: GraphManager ---------------------------------------
    gm_pc,          \* position of GraphManager.process_query
    gm_env,         \* tool manager and tools the agents were built with
    gm_state,       \* GraphState threaded through the graph
    gm_node,        \* node that runs next
    gm_trace,       \* nodes executed so far
    gm_result,      \* what process_query returned
    gm_obs,         \* what the controller decided and what the research found
    \* ---- langchain_mcp: WorkflowManager graph ---------------------------
    lc_state,       \* state dict threaded through the graph
    lc_node,        \* node that runs next ("END" when done, "EXC" when a node raised)
    lc_trace,       \* nodes executed so far
    lc_sends,       \* texts handed to SlackAgent.send_response
    \* ---- mcp-client: SlackResponseAgent._summarize_content --------------
    fmt,            \* the content and LLM summary of a call, and what its runs returned
    \* ---- ai_agent: NotionService.create_task ----------------------------
    ns,             \* the service as constructed and what one create_task call did
    \* ---- ai_agent: DBService ---------------------------------------------
    dbs,            \* self.pool, the pools created and each caller's position
    \* ---- mcp-client: MCPClient._process_cross_server_query --------------
    xs,             \* current_server, session and the call's position
    \* ---- mcp-client: thread reply ----------------------------------------
    rp,             \* the content handed to the reply path and what was sent
    \* ---- observations ---------------------------------------------------
    runs,           \* processing runs started: <<by whom, mention>>
    slack_posts     \* Slack messages posted: <<by whom, mention>>

agentsVars == <<state, node, trace, slack_sends, db_calls, needs_task>>

srvVars == <<srv_state, srv_node, srv_trace>>

apiVars == <<api_pc, queue, cl_pc, cl_batch, cl_analysis>>

pollVars == <<poll_pc, mentions, shutdown_flag>>

gmVars == <<gm_pc, gm_env, gm_state, gm_node, gm_trace, gm_result, gm_obs>>

lcVars == <<lc_state, lc_node, lc_trace, lc_sends>>

svcVars == <<ns, dbs, xs, rp>>

vars == <<sys, agentsVars, srvVars, apiVars, pollVars, gmVars, lcVars, svcVars, fmt, runs,
          slack_posts>>

----------------------------------------------------------------------------
(* Bounds                                                                  *)

\* number of distinct SQL texts the generation LLM can produce
NumSql == 2

\* a node is never counted beyond this many executions
MaxVisits == 3

\* mentions waiting in the queue when poll_elasticmq starts
NumMentions == 2

----------------------------------------------------------------------------
(* Helpers                                                                 *)

SqlTexts == { "SELECT_" \o ToString(i) : i \in 1..NumSql }

Last(s) == s[Len(s)]

Count(seq, x) == Cardinality({ i \in 1..Len(seq) : seq[i] = x })

\* Python truthiness of an Optional[str]
Truthy(x) == x # "None" /\ x # ""

Message(agent_name, content) == [agent_name |-> agent_name, content |-> content]

----------------------------------------------------------------------------
(* agents: State                                                           *)

\* State(query=query) as AgentClient.run builds it; is_need_code_review is
\* the only routing field no node writes, so it is a graph input.
InitialState(code_review) ==
    [ messages                 |-> << >>,
      is_need_data             |-> FALSE,
      sql_query                |-> "",
      generated_sql            |-> "",
      sql_confirmation_needed  |-> TRUE,
      sql_confirmed            |-> FALSE,
      sql_confirmation_response|-> "",
      database_result          |-> "",
      is_need_code_review      |-> code_review,
      code_review_result       |-> "" ]

----------------------------------------------------------------------------
(* agents: UserProxyAgent.execute                                          *)

\* error_type of the failure dicts OpenAIModelHandler.invoke_llm returns
LlmErrorTypes ==
    {"timeout", "quota_exceeded", "api_connection_error", "api_status_error",
     "unknown_model_error"}

\* what invoke_llm gives back: a failure dict with its error_type, an empty
\* completion, a completion that mentions the database/log keywords, one
\* that does not, or an exception inside UserProxyAgent.execute
LlmOutcomes == LlmErrorTypes \cup {"empty", "text_db", "text_plain", "raise"}

\* ERROR_MESSAGE_JA[error_type], formatted
ErrorMessageJa(error_type) == "error_message_" \o error_type

\* UserProxyAgent.execute that keeps the data route open when the call
\* raised
UserProxyExecute_DataRouteOnError(llm) ==
    CASE llm \in LlmErrorTypes -> [content |-> ErrorMessageJa(llm), is_need_data |-> FALSE, error_occurred |-> TRUE]
      [] llm = "empty"      -> [content |-> ErrorMessageJa("empty_response"), is_need_data |-> FALSE, error_occurred |-> TRUE]
      [] llm = "text_db"    -> [content |-> "analysis_text", is_need_data |-> TRUE, error_occurred |-> FALSE]
      [] llm = "text_plain" -> [content |-> "analysis_text", is_need_data |-> FALSE, error_occurred |-> FALSE]
      [] llm = "raise"      -> [content |-> ErrorMessageJa("unknown_proxy_error"), is_need_data |-> TRUE, error_occurred |-> TRUE]

UserProxyExecute(llm) ==
    CASE llm \in LlmErrorTypes -> [content |-> ErrorMessageJa(llm), is_need_data |-> FALSE, error_occurred |-> TRUE]
      [] llm = "empty"      -> [content |-> ErrorMessageJa("empty_response"), is_need_data |-> FALSE, error_occurred |-> TRUE]
      [] llm = "text_db"    -> [content |-> "analysis_text", is_need_data |-> TRUE, error_occurred |-> FALSE]
      [] llm = "text_plain" -> [content |-> "analysis_text", is_need_data |-> FALSE, error_occurred |-> FALSE]
      [] llm = "raise"      -> [content |-> ErrorMessageJa("unknown_proxy_error"), is_need_data |-> FALSE, error_occurred |-> TRUE]

----------------------------------------------------------------------------
(* agents: node functions                                                  *)

\* analyze_query that records nothing when the classification failed
analyze_query_drops_error(s, llm) ==
    LET agent_response == UserProxyExecute(llm) IN
    IF agent_response.error_occurred
    THEN [s EXCEPT !.is_need_data = agent_response.is_need_data]
    ELSE [s EXCEPT !.messages = Append(@, Message("user_proxy", agent_response.content)),
                   !.is_need_data = agent_response.is_need_data]

analyze_query(s, llm) ==
    LET agent_response == UserProxyExecute(llm) IN
    IF agent_response.error_occurred
    THEN [s EXCEPT !.messages = Append(@, Message("error_handler", agent_response.content)),
                   !.is_need_data = agent_response.is_need_data]
    ELSE [s EXCEPT !.messages = Append(@, Message("user_proxy", agent_response.content)),
                   !.is_need_data = agent_response.is_need_data]

\* what DatabaseAgent.process_create_sql gives back: a SQL text, None (its
\* own except branch), an empty string, or an exception from the constructor
\* or from initialize(), which runs outside its try
GenOutcomes == SqlTexts \cup {"None", "", "raise"}

\* generate_sql that reports nothing when no statement came back
generate_sql_silent_failure(s, generated_sql) ==
    IF generated_sql = "raise"
    THEN [s EXCEPT !.messages = Append(@, Message("database_generator", "sql_generation_exception")),
                   !.sql_confirmation_needed = FALSE]
    ELSE IF Truthy(generated_sql)
    THEN [s EXCEPT !.generated_sql = generated_sql,
                   !.messages = Append(@, Message("database_generator", "sql_generated"))]
    ELSE [s EXCEPT !.sql_confirmation_needed = FALSE]

generate_sql(s, generated_sql) ==
    IF generated_sql = "raise"
    THEN [s EXCEPT !.messages = Append(@, Message("database_generator", "sql_generation_exception")),
                   !.sql_confirmation_needed = FALSE]
    ELSE IF Truthy(generated_sql)
    THEN [s EXCEPT !.generated_sql = generated_sql,
                   !.messages = Append(@, Message("database_generator", "sql_generated"))]
    ELSE [s EXCEPT !.messages = Append(@, Message("database_generator", "sql_generation_failed")),
                   !.sql_confirmation_needed = FALSE]

confirm_sql(s) ==
    IF ~Truthy(s.generated_sql)
    THEN [s EXCEPT !.sql_confirmed = FALSE]
    ELSE [s EXCEPT !.messages = Append(@, Message("sql_confirmer", "confirmation_request")),
                   !.sql_confirmed = TRUE,
                   !.sql_confirmation_response = "auto_approved"]

\* what DatabaseAgent.execute does with the natural-language query:
\*   kind "raise"        constructor / initialize() raised
\*   kind "error"        process_query returned an error dict
\*   kind "non_database" is_database_query said no
\*   kind "database"     NaturalLanguageQueryProcessor.process_query wrote a
\*                       statement `sql` from the query text and ran it
ExecOutcomes ==
    [kind : {"raise", "error", "non_database"}, sql : {"none"}, rows : {"none"}]
    \cup [kind : {"error"}, sql : SqlTexts, rows : {"none"}]
    \cup [kind : {"database"}, sql : SqlTexts, rows : {"rows", "empty_list"}]

\* the guard of execute_sql: the call to DatabaseAgent.execute is reached
ExecuteReached(s) == s.sql_confirmed /\ Truthy(s.generated_sql)

\* execute_sql that uses the approval up: it clears sql_confirmed once the
\* statement has run
execute_sql_consumes_confirmation(s, out) ==
    IF ~s.sql_confirmed \/ ~Truthy(s.generated_sql)
    THEN s
    ELSE [s EXCEPT !.sql_query = s.generated_sql,
                   !.sql_confirmed = FALSE,
                   !.messages = Append(@, Message("database_executor", "result_explanation")),
                   !.database_result = IF out.kind = "database" THEN out.rows ELSE ""]

execute_sql(s, out) ==
    IF ~s.sql_confirmed
    THEN [s EXCEPT !.messages = Append(@, Message("database_executor", "not_confirmed_skip"))]
    ELSE IF ~Truthy(s.generated_sql)
    THEN s
    ELSE LET s1 == [s EXCEPT !.sql_query = s.generated_sql] IN
         CASE out.kind = "raise" ->
                [s1 EXCEPT !.messages = Append(@, Message("database_executor", "sql_execution_exception"))]
           [] out.kind = "error" ->
                [s1 EXCEPT !.messages = Append(@, Message("database_executor", "query_error_response")),
                           !.database_result = ""]
           [] out.kind = "non_database" ->
                [s1 EXCEPT !.messages = Append(@, Message("database_executor", "non_database_explanation")),
                           !.database_result = "empty_list"]
           [] out.kind = "database" ->
                [s1 EXCEPT !.messages = Append(@, Message("database_executor", "result_explanation")),
                           !.database_result = out.rows]

review_github_code(s) == [s EXCEPT !.code_review_result = "test_code_review_result"]

\* the text slack_response hands to SlackAgent.send_message
LastMessageContent(s) ==
    IF Len(s.messages) > 0 THEN Last(s.messages).content ELSE "processing_done"

\* SlackAgent.send_message never raises: it returns the agent's content or
\* the text of its own except branch
SlackOutcomes == {"agent_content", "send_error_content"}

\* slack_response that keeps only its own message in state.messages
slack_response_keeps_own_message(s, out) ==
    [s EXCEPT !.messages = << Message("slack_response", out) >>]

slack_response(s, out) ==
    [s EXCEPT !.messages = Append(@, Message("slack_response", out))]

\* nodes of create_workflow_graph that assign state.is_need_code_review
IsNeedCodeReviewWriters == { }

----------------------------------------------------------------------------
(* agents: edges of create_workflow_graph                                  *)

\* edges with the False branch of analyze_query wired to END instead of
\* slack_response
RouteAfter_SkipSlack(n, s) ==
    CASE n = "START"              -> "analyze_query"
      [] n = "analyze_query"      -> IF s.is_need_data THEN "generate_sql" ELSE "END"
      [] n = "generate_sql"       -> IF s.sql_confirmation_needed /\ Truthy(s.generated_sql)
                                     THEN "confirm_sql" ELSE "slack_response"
      [] n = "confirm_sql"        -> IF s.sql_confirmed THEN "execute_sql" ELSE "slack_response"
      [] n = "execute_sql"        -> IF s.is_need_code_review THEN "review_github_code" ELSE "slack_response"
      [] n = "review_github_code" -> "slack_response"
      [] n = "slack_response"     -> "END"

RouteAfter(n, s) ==
    CASE n = "START"              -> "analyze_query"
      [] n = "analyze_query"      -> IF s.is_need_data THEN "generate_sql" ELSE "slack_response"
      [] n = "generate_sql"       -> IF s.sql_confirmation_needed /\ Truthy(s.generated_sql)
                                     THEN "confirm_sql" ELSE "slack_response"
      [] n = "confirm_sql"        -> IF s.sql_confirmed THEN "execute_sql" ELSE "slack_response"
      [] n = "execute_sql"        -> IF s.is_need_code_review THEN "review_github_code" ELSE "slack_response"
      [] n = "review_github_code" -> "slack_response"
      [] n = "slack_response"     -> "END"

\* one super-step of the compiled graph: the node has run, its edge is taken
Advance(n, s) ==
    /\ Count(trace, n) < MaxVisits
    /\ state' = s
    /\ trace' = Append(trace, n)
    /\ node' = RouteAfter(n, s)

----------------------------------------------------------------------------
(* agents: actions                                                         *)

AgentsInit ==
    /\ \E cr \in BOOLEAN : state = InitialState(cr)
    /\ node = RouteAfter("START", InitialState(FALSE))
    /\ trace = << >>
    /\ slack_sends = << >>
    /\ db_calls = << >>
    /\ needs_task \in BOOLEAN

AgentsIdle ==
    /\ state = InitialState(FALSE)
    /\ node = "END"
    /\ trace = << >>
    /\ slack_sends = << >>
    /\ db_calls = << >>
    /\ needs_task = FALSE

AnalyzeQuery ==
    /\ sys = "agents" /\ node = "analyze_query"
    /\ \E llm \in LlmOutcomes : Advance("analyze_query", analyze_query(state, llm))
    /\ UNCHANGED <<sys, svcVars, lcVars, fmt, pollVars, gmVars, slack_sends, db_calls, needs_task, srvVars, apiVars, runs, slack_posts>>

GenerateSql ==
    /\ sys = "agents" /\ node = "generate_sql"
    /\ \E g \in GenOutcomes : Advance("generate_sql", generate_sql(state, g))
    /\ UNCHANGED <<sys, svcVars, lcVars, fmt, pollVars, gmVars, slack_sends, db_calls, needs_task, srvVars, apiVars, runs, slack_posts>>

ConfirmSql ==
    /\ sys = "agents" /\ node = "confirm_sql"
    /\ Advance("confirm_sql", confirm_sql(state))
    /\ UNCHANGED <<sys, svcVars, lcVars, fmt, pollVars, gmVars, slack_sends, db_calls, needs_task, srvVars, apiVars, runs, slack_posts>>

ExecuteSql ==
    /\ sys = "agents" /\ node = "execute_sql"
    /\ \E out \in ExecOutcomes :
         /\ Advance("execute_sql", execute_sql(state, out))
         /\ db_calls' = IF ExecuteReached(state) /\ out.kind # "raise"
                        THEN Append(db_calls, [confirmed |-> state.sql_confirmed,
                                               generated_sql |-> state.generated_sql,
                                               ran |-> out.sql])
                        ELSE db_calls
    /\ UNCHANGED <<sys, svcVars, lcVars, fmt, pollVars, gmVars, slack_sends, needs_task, srvVars, apiVars, runs, slack_posts>>

ReviewGithubCode ==
    /\ sys = "agents" /\ node = "review_github_code"
    /\ Advance("review_github_code", review_github_code(state))
    /\ UNCHANGED <<sys, svcVars, lcVars, fmt, pollVars, gmVars, slack_sends, db_calls, needs_task, srvVars, apiVars, runs, slack_posts>>

SlackResponse ==
    /\ sys = "agents" /\ node = "slack_response"
    /\ \E out \in SlackOutcomes : Advance("slack_response", slack_response(state, out))
    /\ slack_sends' = Append(slack_sends, LastMessageContent(state))
    /\ UNCHANGED <<sys, svcVars, lcVars, fmt, pollVars, gmVars, db_calls, needs_task, srvVars, apiVars, runs, slack_posts>>

AgentsNext ==
    \/ AnalyzeQuery
    \/ GenerateSql
    \/ ConfirmSql
    \/ ExecuteSql
    \/ ReviewGithubCode
    \/ SlackResponse


----------------------------------------------------------------------------
(* ai_agent: SlackService.send_message                                     *)

\* chat_postMessage accepted the message, Slack refused it (SlackApiError,
\* returns False), no client is configured (returns False), or another
\* exception escapes send_message
SendOutcomes == {"ok", "api_error", "no_client", "raise"}

\* the message reached Slack
Posted(out) == out = "ok"

----------------------------------------------------------------------------
(* ai_agent: MCPServer graph                                               *)

NoFinalResult ==
    [set |-> FALSE, success |-> FALSE, slack_response_sent |-> FALSE,
     notion_task_created |-> FALSE, error |-> ""]

\* initial_state of MCPServer.process; task_id is the local of
\* create_notion_task that holds what NotionService.create_task returned
SrvInitialState ==
    [ analysis_content   |-> "",
      requires_follow_up |-> FALSE,
      slack_response     |-> "",
      notion_task_title  |-> "",
      task_id            |-> "None",
      error              |-> "",
      final_result       |-> NoFinalResult ]

\* an LLM chain call returns text or raises
ChainOutcomes == {"ok", "raise"}

analyze_intent(st, out) ==
    IF out = "ok"
    THEN [st EXCEPT !.analysis_content = "analysis", !.requires_follow_up = FALSE]
    ELSE [st EXCEPT !.error = "intent_analysis_failed",
                    !.analysis_content = "analysis_error", !.requires_follow_up = FALSE]

\* nodes of MCPServer's graph that set "slack_response"
SlackResponseWriters == {"generate_slack_response"}

generate_slack_response(st, out) ==
    IF out = "ok"
    THEN [st EXCEPT !.slack_response = "response"]
    ELSE [st EXCEPT !.error = "response_generation_failed",
                    !.slack_response = "response_error_apology"]

\* the evaluation names follow-up True, names it False, or the call raises
EvalOutcomes == {"follow_up", "no_follow_up", "raise"}

evaluate_notion_need(st, out) ==
    IF out = "raise"
    THEN [st EXCEPT !.error = "notion_need_evaluation_failed", !.requires_follow_up = FALSE]
    ELSE [st EXCEPT !.requires_follow_up = (out = "follow_up")]

\* task JSON parsed and create_task returned an id / returned None, the
\* JSON did not parse (fallback task) with the same two results, or the step
\* raised
NotionOutcomes == {"created", "create_none", "fallback_created", "fallback_none", "raise"}

\* what NotionService.create_task returned in a create_notion_task outcome
TaskIdOf(out) == IF out \in {"created", "fallback_created"} THEN "task_id" ELSE "None"

create_notion_task(st, out) ==
    CASE out \in {"created", "create_none"} ->
            [st EXCEPT !.notion_task_title = "task_title", !.task_id = TaskIdOf(out)]
      [] out \in {"fallback_created", "fallback_none"} ->
            [st EXCEPT !.notion_task_title = "fallback_title",
                       !.task_id = TaskIdOf(out),
                       !.error = "task_json_parsing_failed"]
      [] out = "raise" ->
            [st EXCEPT !.error = "notion_task_creation_failed"]

\* the text send_slack_response hands to SlackService.send_message; the key
\* "notion_task" is always in the state because initial_state sets it
SrvResponseText(st) ==
    IF st.requires_follow_up
    THEN <<st.slack_response, "notion_task_created_note", st.notion_task_title>>
    ELSE <<st.slack_response>>

send_slack_response(st, out) ==
    IF out = "raise"
    THEN [st EXCEPT !.error = "slack_response_sending_failed",
                    !.final_result = [set |-> TRUE, success |-> FALSE,
                                      slack_response_sent |-> FALSE,
                                      notion_task_created |-> FALSE,
                                      error |-> "exception"]]
    ELSE [st EXCEPT !.final_result = [set |-> TRUE, success |-> Posted(out),
                                      slack_response_sent |-> Posted(out),
                                      notion_task_created |-> st.requires_follow_up,
                                      error |-> st.error]]

needs_notion_task(st) == st.requires_follow_up

\* edges of MCPServer._build_graph
SrvRouteAfter(n, st) ==
    CASE n = "START"                   -> "analyze_intent"
      [] n = "analyze_intent"          -> "generate_slack_response"
      [] n = "generate_slack_response" -> "evaluate_notion_need"
      [] n = "evaluate_notion_need"    -> IF needs_notion_task(st)
                                          THEN "create_notion_task" ELSE "send_slack_response"
      [] n = "create_notion_task"      -> "send_slack_response"
      [] n = "send_slack_response"     -> "END"

SrvAdvance(n, st) ==
    /\ Count(srv_trace, n) < MaxVisits
    /\ srv_state' = st
    /\ srv_trace' = Append(srv_trace, n)
    /\ srv_node' = SrvRouteAfter(n, st)

SrvIdle ==
    /\ srv_state = SrvInitialState
    /\ srv_node = "idle"
    /\ srv_trace = << >>

SrvAnalyzeIntent ==
    /\ srv_node = "analyze_intent"
    /\ \E out \in ChainOutcomes : SrvAdvance("analyze_intent", analyze_intent(srv_state, out))
    /\ UNCHANGED <<sys, svcVars, lcVars, fmt, pollVars, gmVars, agentsVars, apiVars, runs, slack_posts>>

SrvGenerateSlackResponse ==
    /\ srv_node = "generate_slack_response"
    /\ \E out \in ChainOutcomes :
          SrvAdvance("generate_slack_response", generate_slack_response(srv_state, out))
    /\ UNCHANGED <<sys, svcVars, lcVars, fmt, pollVars, gmVars, agentsVars, apiVars, runs, slack_posts>>

SrvEvaluateNotionNeed ==
    /\ srv_node = "evaluate_notion_need"
    /\ \E out \in EvalOutcomes :
          SrvAdvance("evaluate_notion_need", evaluate_notion_need(srv_state, out))
    /\ UNCHANGED <<sys, svcVars, lcVars, fmt, pollVars, gmVars, agentsVars, apiVars, runs, slack_posts>>

SrvCreateNotionTask ==
    /\ srv_node = "create_notion_task"
    /\ \E out \in NotionOutcomes :
          SrvAdvance("create_notion_task", create_notion_task(srv_state, out))
    /\ UNCHANGED <<sys, svcVars, lcVars, fmt, pollVars, gmVars, agentsVars, apiVars, runs, slack_posts>>

SrvSendSlackResponse ==
    /\ srv_node = "send_slack_response"
    /\ \E out \in SendOutcomes :
          /\ SrvAdvance("send_slack_response", send_slack_response(srv_state, out))
          /\ slack_posts' = IF Posted(out)
                            THEN Append(slack_posts, <<"MCPServer.process", 1>>)
                            ELSE slack_posts
    /\ UNCHANGED <<sys, svcVars, lcVars, fmt, pollVars, gmVars, agentsVars, apiVars, runs>>

----------------------------------------------------------------------------
(* ai_agent: api.py, POST /process-mention and the startup poller          *)

\* handle_mention: queue the task, schedule server.process as a background
\* task, answer the request
HandleMention ==
    /\ sys = "api" /\ api_pc = "request"
    /\ \E queue_success \in BOOLEAN :
          queue' = IF queue_success THEN Append(queue, 1) ELSE queue
    /\ srv_node' = SrvRouteAfter("START", srv_state)
    /\ runs' = Append(runs, <<"MCPServer.process", 1>>)
    /\ api_pc' = "accepted"
    /\ UNCHANGED <<sys, svcVars, lcVars, fmt, pollVars, gmVars, agentsVars, srv_state, srv_trace, cl_pc, cl_batch, cl_analysis, slack_posts>>

\* MCPClient.run, the poller startup_event starts (MCPClient taken as
\* imported): receive_messages takes the queued messages (and deletes
\* them); an empty answer sends the loop to sleep and back
ClReceive ==
    /\ sys = "api" /\ cl_pc = "poll"
    /\ queue # << >>
    /\ cl_batch' = queue
    /\ queue' = << >>
    /\ cl_pc' = "gather"
    /\ UNCHANGED <<sys, svcVars, lcVars, fmt, pollVars, gmVars, agentsVars, srvVars, api_pc, cl_analysis, runs, slack_posts>>

\* MCPClient.analyze_message returns a TaskAnalysisResult, also when the
\* chain raises
AnalysisOutcomes ==
    [content : {"reply_text", ""}, requires_follow_up : BOOLEAN]
    \cup {[content |-> "analysis_error_apology", requires_follow_up |-> FALSE]}

\* MCPClient.process_message, up to the analysis
ClAnalyzeMessage ==
    /\ sys = "api" /\ cl_pc = "gather"
    /\ cl_batch # << >>
    /\ \E a \in AnalysisOutcomes : cl_analysis' = a
    /\ runs' = Append(runs, <<"MCPClient.process_message", 1>>)
    /\ cl_pc' = "reply"
    /\ UNCHANGED <<sys, svcVars, lcVars, fmt, pollVars, gmVars, agentsVars, srvVars, api_pc, queue, cl_batch, slack_posts>>

\* MCPClient.process_with_mcp: the Slack reply; an exception ends the
\* message, otherwise the follow-up part runs
ClReply ==
    /\ sys = "api" /\ cl_pc = "reply"
    /\ \E out \in SendOutcomes :
          /\ slack_posts' = IF Posted(out)
                            THEN Append(slack_posts, <<"MCPClient.process_with_mcp", 1>>)
                            ELSE slack_posts
          /\ cl_pc' = IF out # "raise" /\ cl_analysis.requires_follow_up
                      THEN "follow_up" ELSE "done"
    /\ UNCHANGED <<sys, svcVars, lcVars, fmt, pollVars, gmVars, agentsVars, srvVars, api_pc, queue, cl_batch, cl_analysis, runs>>

\* MCPClient.process_with_mcp: the Notion task of a follow-up
ClFollowUp ==
    /\ sys = "api" /\ cl_pc = "follow_up"
    /\ cl_pc' = "done"
    /\ UNCHANGED <<sys, svcVars, lcVars, fmt, pollVars, gmVars, agentsVars, srvVars, api_pc, queue, cl_batch, cl_analysis, runs, slack_posts>>

\* gather returns, the loop sleeps and polls again
ClSleep ==
    /\ sys = "api" /\ cl_pc = "done"
    /\ cl_batch' = Tail(cl_batch)
    /\ cl_pc' = IF Tail(cl_batch) = << >> THEN "poll" ELSE "gather"
    /\ UNCHANGED <<sys, svcVars, lcVars, fmt, pollVars, gmVars, agentsVars, srvVars, api_pc, queue, cl_analysis, runs, slack_posts>>

NoAnalysis == [content |-> "", requires_follow_up |-> FALSE]

ApiInit ==
    /\ api_pc = "request"
    /\ queue = << >>
    /\ cl_pc = "poll"
    /\ cl_batch = << >>
    /\ cl_analysis = NoAnalysis

ApiIdle ==
    /\ api_pc = "none"
    /\ queue = << >>
    /\ cl_pc = "none"
    /\ cl_batch = << >>
    /\ cl_analysis = NoAnalysis

----------------------------------------------------------------------------
(* ai_agent: main.py, poll_elasticmq and process_mention                   *)

MentionIds == 1..NumMentions

\* the fields of the MentionTask a message carries; thread_ts is optional
MentionData(id) ==
    [text      |-> "text_" \o ToString(id),
     channel   |-> "channel_" \o ToString(id),
     ts        |-> "ts_" \o ToString(id),
     thread_ts |-> IF id % 2 = 0 THEN "thread_ts_" \o ToString(id) ELSE "None"]

NoTask == [text |-> "", channel |-> "", ts |-> "", thread_ts |-> "None"]

NoReply == [channel |-> "None", text |-> "None", thread_ts |-> "None"]

\* what DatabaseAgent.process returns (it catches every exception): no
\* query is needed, the generated statement ran (as written or corrected by
\* text_to_sql), text_to_sql gave no statement, DBService.execute_query
\* reported an error, or a call raised before any statement was run
DbProcessOutcomes ==
    {"no_query_needed", "executed", "executed_modified", "generation_failed",
     "execution_failed", "exception"}

\* the calls DatabaseAgent.process and execute_db_query make, in order
DbSteps(out) ==
    CASE out \in {"no_query_needed", "exception"} -> <<"need_query_chain">>
      [] out = "generation_failed" ->
            <<"need_query_chain", "get_db_schema_info", "text_to_sql">>
      [] out \in {"executed", "executed_modified", "execution_failed"} ->
            <<"need_query_chain", "get_db_schema_info", "text_to_sql", "execute_query">>

\* the text process_mention returns on the database branch
DbReplyText(out) ==
    CASE out = "executed_modified" -> "query_fixed_and_executed"
      [] out \in {"executed", "no_query_needed"} -> "query_executed"
      [] out \in {"generation_failed", "execution_failed", "exception"} -> "db_processing_error"

SetPc(id, pc) == [mentions EXCEPT ![id].pc = pc]

Return(id, text) == [mentions EXCEPT ![id].pc = "returned", ![id].result = text]

\* QueueService.receive_messages on the batch SQS hands over: each message
\* is parsed, collected when its body is JSON, and deleted; fail = 0 when
\* every delete succeeds, fail = i when the delete of the i-th message
\* raises, which the outer handler answers with an empty list: the messages
\* before the i-th are deleted, the i-th and the later ones stay in the queue
receive_messages(batch, fail) ==
    [returned |-> IF fail = 0
                  THEN SelectSeq(batch, LAMBDA id : mentions[id].well_formed)
                  ELSE << >>,
     deleted  |-> IF fail = 0 THEN Len(batch) ELSE fail - 1]

\* mentions after a receive: every message of the batch has been received,
\* and process_mention starts for the returned ones and runs to its first
\* await
Started(batch, returned) ==
    [id \in MentionIds |->
        IF \E i \in 1..Len(batch) : batch[i] = id
        THEN [mentions[id] EXCEPT
                !.received = TRUE,
                !.pc = IF \E i \in 1..Len(returned) : returned[i] = id
                       THEN (IF mentions[id].needs_db_query
                             THEN "db_process" ELSE "mcp_analysis")
                       ELSE @]
        ELSE mentions[id]]

\* the loop body entered without looking at shutdown_flag
PollReceive_IgnoresShutdown ==
    /\ sys = "poller" /\ poll_pc = "receive"
    /\ \E k \in 1..Len(queue), fail \in 0..Len(queue) :
          /\ fail <= k
          /\ LET batch == SubSeq(queue, 1, k)
                 r     == receive_messages(batch, fail)
             IN  /\ queue' = SubSeq(queue, r.deleted + 1, Len(queue))
                 /\ mentions' = Started(batch, r.returned)
                 /\ runs' = runs \o [i \in 1..Len(r.returned) |->
                                        <<"process_mention", r.returned[i]>>]
    /\ poll_pc' = "gather"
    /\ UNCHANGED <<sys, svcVars, lcVars, fmt, gmVars, agentsVars, srvVars, api_pc, cl_pc, cl_batch, cl_analysis, shutdown_flag, slack_posts>>

\* the loop body up to gather: receive_messages is handed a non-empty batch
\* of the queued messages (at most max_messages = 10); a message whose body
\* does not parse (as JSON, or as a MentionTask) is skipped; process_mention
\* starts for each of the others
PollReceive ==
    /\ sys = "poller" /\ poll_pc = "receive"
    /\ ~shutdown_flag
    /\ \E k \in 1..Len(queue), fail \in 0..Len(queue) :
          /\ fail <= k
          /\ LET batch == SubSeq(queue, 1, k)
                 r     == receive_messages(batch, fail)
             IN  /\ queue' = SubSeq(queue, r.deleted + 1, Len(queue))
                 /\ mentions' = Started(batch, r.returned)
                 /\ runs' = runs \o [i \in 1..Len(r.returned) |->
                                        <<"process_mention", r.returned[i]>>]
    /\ poll_pc' = "gather"
    /\ UNCHANGED <<sys, svcVars, lcVars, fmt, gmVars, agentsVars, srvVars, api_pc, cl_pc, cl_batch, cl_analysis, shutdown_flag, slack_posts>>

\* process_mention, database branch: await db_agent.process(task), then
\* build the reply text and return it
DbProcess(id) ==
    /\ sys = "poller" /\ mentions[id].pc = "db_process"
    /\ \E out \in DbProcessOutcomes :
          mentions' = [Return(id, DbReplyText(out)) EXCEPT ![id].db_steps = DbSteps(out)]
    /\ UNCHANGED <<sys, svcVars, lcVars, fmt, gmVars, agentsVars, srvVars, apiVars, poll_pc, shutdown_flag, runs, slack_posts>>

\* MCPServer.process_with_mcp: the analysis chain, run on task.text
McpAnalysis(id) ==
    /\ sys = "poller" /\ mentions[id].pc = "mcp_analysis"
    /\ \E out \in ChainOutcomes, follow \in BOOLEAN :
          mentions' = IF out = "raise"
                      THEN Return(id, "mcp_processing_error")
                      ELSE [mentions EXCEPT
                              ![id].pc = "mcp_reply",
                              ![id].requires_follow_up = follow,
                              ![id].analysis_content =
                                  "analysis_of_" \o mentions[id].task.text]
    /\ UNCHANGED <<sys, svcVars, lcVars, fmt, gmVars, agentsVars, srvVars, apiVars, poll_pc, shutdown_flag, runs, slack_posts>>

\* the arguments of send_message, taken from the local task and analysis
ReplyArgs(m) ==
    [channel   |-> m.task.channel,
     text      |-> m.analysis_content,
     thread_ts |-> IF Truthy(m.task.thread_ts) THEN m.task.thread_ts ELSE m.task.ts]

\* the reply addressed from the task of the mention that was started last
McpReply_SharedTask(id) ==
    /\ sys = "poller" /\ mentions[id].pc = "mcp_reply"
    /\ \E out \in SendOutcomes :
          /\ slack_posts' = IF Posted(out)
                            THEN Append(slack_posts, <<"MCPServer.process_with_mcp", id>>)
                            ELSE slack_posts
          /\ mentions' = [ (IF out = "raise"
                            THEN Return(id, "mcp_processing_error")
                            ELSE IF mentions[id].requires_follow_up
                            THEN SetPc(id, "mcp_follow_up")
                            ELSE Return(id, "message_processed"))
                           EXCEPT ![id].reply =
                                     ReplyArgs([mentions[id] EXCEPT
                                                  !.task = mentions[Last(runs)[2]].task]) ]
    /\ UNCHANGED <<sys, svcVars, lcVars, fmt, gmVars, agentsVars, srvVars, apiVars, poll_pc, shutdown_flag, runs>>

\* MCPServer.process_with_mcp: the Slack reply
McpReply(id) ==
    /\ sys = "poller" /\ mentions[id].pc = "mcp_reply"
    /\ \E out \in SendOutcomes :
          /\ slack_posts' = IF Posted(out)
                            THEN Append(slack_posts, <<"MCPServer.process_with_mcp", id>>)
                            ELSE slack_posts
          /\ mentions' = [ (IF out = "raise"
                            THEN Return(id, "mcp_processing_error")
                            ELSE IF mentions[id].requires_follow_up
                            THEN SetPc(id, "mcp_follow_up")
                            ELSE Return(id, "message_processed"))
                           EXCEPT ![id].reply = ReplyArgs(mentions[id]) ]
    /\ UNCHANGED <<sys, svcVars, lcVars, fmt, gmVars, agentsVars, srvVars, apiVars, poll_pc, shutdown_flag, runs>>

\* MCPServer.process_with_mcp: the Notion task of a follow-up; the task is
\* created, its JSON does not parse (result keeps success True), or a call
\* raises (success False)
McpFollowUp(id) ==
    /\ sys = "poller" /\ mentions[id].pc = "mcp_follow_up"
    /\ \E out \in {"created", "json_error", "raise"} :
          mentions' = IF out = "raise"
                      THEN Return(id, "mcp_processing_error")
                      ELSE Return(id, "message_processed")
    /\ UNCHANGED <<sys, svcVars, lcVars, fmt, gmVars, agentsVars, srvVars, apiVars, poll_pc, shutdown_flag, runs, slack_posts>>

\* gather has every result (and drops them); the loop sleeps and comes back
\* to its `while not shutdown_flag` test
PollGathered ==
    /\ sys = "poller" /\ poll_pc = "gather"
    /\ \A id \in MentionIds : mentions[id].pc \in {"queued", "returned"}
    /\ poll_pc' = "receive"
    /\ UNCHANGED <<sys, svcVars, lcVars, fmt, gmVars, agentsVars, srvVars, apiVars, mentions, shutdown_flag, runs, slack_posts>>

\* handle_shutdown: the signal handler sets the flag and does nothing else
HandleShutdown ==
    /\ sys = "poller" /\ poll_pc \in {"receive", "gather"}
    /\ ~shutdown_flag
    /\ shutdown_flag' = TRUE
    /\ UNCHANGED <<sys, svcVars, lcVars, fmt, gmVars, agentsVars, srvVars, apiVars, poll_pc, mentions, runs, slack_posts>>

\* the `while not shutdown_flag` test fails: poll_elasticmq returns
PollExit ==
    /\ sys = "poller" /\ poll_pc = "receive"
    /\ shutdown_flag
    /\ poll_pc' = "stopped"
    /\ UNCHANGED <<sys, svcVars, lcVars, fmt, gmVars, agentsVars, srvVars, apiVars, mentions, shutdown_flag, runs, slack_posts>>

NoMention ==
    [needs_db_query |-> FALSE, well_formed |-> TRUE, task |-> NoTask,
     received |-> FALSE, pc |-> "none", requires_follow_up |-> FALSE,
     analysis_content |-> "", reply |-> NoReply, result |-> "", db_steps |-> << >>]

\* the queued messages: each has a body that parses or not, and one that
\* parses asks for the database or not
PollInit ==
    /\ poll_pc = "receive"
    /\ shutdown_flag = FALSE
    /\ \E db \in [MentionIds -> BOOLEAN], wf \in [MentionIds -> BOOLEAN] :
          /\ \A id \in MentionIds : db[id] => wf[id]
          /\ mentions = [id \in MentionIds |->
                        [needs_db_query |-> db[id], well_formed |-> wf[id],
                         task |-> MentionData(id), received |-> FALSE, pc |-> "queued",
                         requires_follow_up |-> FALSE, analysis_content |-> "",
                         reply |-> NoReply, result |-> "", db_steps |-> << >>]]

PollIdle ==
    /\ poll_pc = "none"
    /\ shutdown_flag = FALSE
    /\ mentions = [id \in MentionIds |-> NoMention]

----------------------------------------------------------------------------
(* mcp-client: GraphManager                                                *)

McpTools == {"slack_reply_to_thread", "slack_post_message", "notion_create_page"}

\* initial_state of process_query
GmInitialState(user_id, thread_ts) ==
    [ query_type    |-> "",
      user_id       |-> user_id,
      thread_ts     |-> thread_ts,
      db_result     |-> "None",
      github_result |-> "None",
      notion_result |-> "None",
      response      |-> "None" ]

\* the controller's LLM answer, by the keywords it contains
ControllerTexts == [db : BOOLEAN, code : BOOLEAN, task : BOOLEAN]

\* controller_agent: the query type read off the LLM answer
ExtractQueryType(text) ==
    IF text.db THEN "db_query"
    ELSE IF text.code
    THEN (IF text.task THEN "task_creation" ELSE "code_issue")
    ELSE "general"

controller_agent(st, text) == [st EXCEPT !.query_type = ExtractQueryType(text)]

\* a task_creation request sent to notion_task before any research
determine_query_type_task_first(st) ==
    CASE st.query_type = "general"       -> "slack_response"
      [] st.query_type = "db_query"      -> "db_query"
      [] st.query_type = "code_issue"    -> "github_research"
      [] st.query_type = "task_creation" ->
            IF ~Truthy(st.notion_result) THEN "notion_task"
            ELSE IF ~Truthy(st.github_result) THEN "github_research"
            ELSE "slack_response"
      [] OTHER                           -> "slack_response"

determine_query_type(st) ==
    CASE st.query_type = "general"       -> "slack_response"
      [] st.query_type = "db_query"      -> "db_query"
      [] st.query_type = "code_issue"    -> "github_research"
      [] st.query_type = "task_creation" ->
            IF ~Truthy(st.github_result) THEN "github_research"
            ELSE IF ~Truthy(st.notion_result) THEN "notion_task"
            ELSE "slack_response"
      [] OTHER                           -> "slack_response"

determine_next_after_github(st) ==
    IF st.query_type = "task_creation" THEN "notion_task" ELSE "slack_response"

determine_next_after_db(st) == "slack_response"

determine_next_after_notion(st) == "slack_response"

\* targets of edges out of START that build_graph declares: it calls neither
\* add_edge(START, ...) nor set_entry_point
GmEntryPoints == { }

\* edges of build_graph, with github_research handing back to the controller
GmRouteAfter_BackToController(n, st) ==
    CASE n = "controller"      -> determine_query_type(st)
      [] n = "github_research" -> "controller"
      [] n = "db_query"        -> determine_next_after_db(st)
      [] n = "notion_task"     -> determine_next_after_notion(st)
      [] n = "slack_response"  -> "END"

\* edges of build_graph
GmRouteAfter(n, st) ==
    CASE n = "controller"      -> determine_query_type(st)
      [] n = "github_research" -> determine_next_after_github(st)
      [] n = "db_query"        -> determine_next_after_db(st)
      [] n = "notion_task"     -> determine_next_after_notion(st)
      [] n = "slack_response"  -> "END"

\* DBQueryAgent.process: a result, an error the LLM explains, or an
\* exception caught by the node
DbNodeOutcomes == {"ok", "error_explained", "exception"}

db_query(st, out) ==
    CASE out = "ok"              -> [st EXCEPT !.db_result = "ok", !.response = "db_explanation"]
      [] out = "error_explained" -> [st EXCEPT !.db_result = "error", !.response = "db_error_explanation"]
      [] out = "exception"       -> [st EXCEPT !.db_result = "error", !.response = "db_exception_text"]

\* GitHubResearchAgent.process past the tool-manager check:
\*   kind "ok"          the tools answered and the LLM analysed the answers
\*                      (a code analysis names a problem or not, the summary
\*                      holds a follow-up term or not)
\*   kind "tool_failed" a tool call failed: ToolManager.execute_tool catches
\*                      the exception and returns the text "Error: ...",
\*                      which goes into the LLM's input like any answer
\*   kind "error"       list_available_tools or an LLM call raised and the
\*                      except branch of process caught it
GithubOutcomes ==
    [kind : {"ok"}, issue_found : BOOLEAN, signal_terms : BOOLEAN]
    \cup [kind : {"tool_failed"}, issue_found : {FALSE}, signal_terms : BOOLEAN]
    \cup [kind : {"error"}, issue_found : {FALSE}, signal_terms : {FALSE}]

github_research(st, env, out) ==
    IF ~env.tool_manager \/ out.kind = "error"
    THEN [st EXCEPT !.github_result = "error", !.response = "github_error_text"]
    ELSE LET wants_task == st.query_type = "task_creation"
                             \/ (out.issue_found /\ out.signal_terms)
         IN  [st EXCEPT !.github_result = "ok",
                        !.response = "github_analysis",
                        !.query_type = IF wants_task THEN "task_creation" ELSE @]

\* NotionTaskAgent.process past its checks: no task database is found, a
\* call raises, the page tool answers with a page url, or it answers with
\* an error text (execute_tool returns it as a string)
NotionNodeOutcomes == {"no_database", "exception", "page_url", "tool_error"}

notion_task(st, env, out) ==
    IF ~env.tool_manager
    THEN [st EXCEPT !.notion_result = "error", !.response = "notion_exception_text"]
    ELSE IF ~Truthy(st.github_result)
    THEN [st EXCEPT !.notion_result = "error", !.response = "notion_no_github_result"]
    ELSE IF out = "exception"
    THEN [st EXCEPT !.notion_result = "error", !.response = "notion_exception_text"]
    ELSE IF "notion_create_page" \notin env.tools
    THEN [st EXCEPT !.notion_result = "error", !.response = "notion_tool_unavailable"]
    ELSE CASE out = "no_database" ->
                [st EXCEPT !.notion_result = "error", !.response = "notion_database_not_found"]
           [] out = "page_url" ->
                [st EXCEPT !.notion_result = "created", !.response = "notion_task_created"]
           [] out = "tool_error" ->
                [st EXCEPT !.notion_result = "created_no_url", !.response = "notion_task_created"]

\* SlackResponseAgent.process up to the send: _format_response keeps a
\* response that is already there and asks the LLM otherwise;
\* _summarize_content keeps a short text, shortens a long one, and may ask
\* the LLM; an LLM call may raise
FormatOutcomes == {"short", "summarised", "raise"}

\* the Slack tool SlackResponseAgent.process calls, "none" if it calls none
SlackToolUsed(st, env) ==
    IF env.tool_manager /\ Truthy(st.thread_ts) /\ Truthy(st.user_id)
    THEN (IF "slack_reply_to_thread" \in env.tools THEN "slack_reply_to_thread"
          ELSE IF "slack_post_message" \in env.tools THEN "slack_post_message"
          ELSE "none")
    ELSE "none"

gm_slack_response(st, out) ==
    CASE out = "raise"      -> [st EXCEPT !.response = "slack_exception_text"]
      [] out = "summarised" -> [st EXCEPT !.response = "summarised_response"]
      [] out = "short"      -> [st EXCEPT !.response = IF Truthy(@) THEN @ ELSE "llm_formatted_response"]

GmAdvance(n, st) ==
    /\ Count(gm_trace, n) < MaxVisits
    /\ gm_state' = st
    /\ gm_trace' = Append(gm_trace, n)
    /\ gm_node' = GmRouteAfter(n, st)

NoResult == [raised |-> FALSE, response |-> "None", error |-> "None"]

\* nothing decided, nothing researched yet
NoObservation ==
    [route |-> "", research |-> [kind |-> "none", issue_found |-> FALSE, signal_terms |-> FALSE]]

\* process_query up to graph.ainvoke: build_graph runs outside the try, so
\* what it raises leaves process_query; compile() rejects a graph without
\* an entry point
GmBuildGraph ==
    /\ sys = "process_query" /\ gm_pc = "call"
    /\ \E agents_ok \in BOOLEAN :
          IF agents_ok /\ GmEntryPoints # { }
          THEN /\ gm_pc' = "invoke"
               /\ gm_node' = CHOOSE n \in GmEntryPoints : TRUE
               /\ UNCHANGED gm_result
          ELSE /\ gm_pc' = "raised"
               /\ gm_result' = [NoResult EXCEPT !.raised = TRUE]
               /\ UNCHANGED gm_node
    /\ runs' = Append(runs, <<"GraphManager.process_query", 1>>)
    /\ UNCHANGED <<sys, svcVars, lcVars, fmt, pollVars, agentsVars, srvVars, apiVars, gm_env, gm_obs, gm_state, gm_trace, slack_posts>>

\* controller_agent has no try: an exception of llm.invoke leaves the graph
GmController ==
    /\ gm_pc = "invoke" /\ gm_node = "controller"
    /\ \/ \E text \in ControllerTexts :
             /\ GmAdvance("controller", controller_agent(gm_state, text))
             /\ gm_obs' = [gm_obs EXCEPT !.route = ExtractQueryType(text)]
       \/ /\ gm_node' = "EXC"
          /\ gm_trace' = Append(gm_trace, "controller")
          /\ UNCHANGED <<gm_state, gm_obs>>
    /\ UNCHANGED <<sys, svcVars, lcVars, fmt, pollVars, agentsVars, srvVars, apiVars, gm_pc, gm_env, gm_result, runs, slack_posts>>

GmDbQuery ==
    /\ gm_pc = "invoke" /\ gm_node = "db_query"
    /\ \E out \in DbNodeOutcomes : GmAdvance("db_query", db_query(gm_state, out))
    /\ UNCHANGED <<sys, svcVars, lcVars, fmt, pollVars, agentsVars, srvVars, apiVars, gm_pc, gm_env, gm_obs, gm_result, runs, slack_posts>>

GmGithubResearch ==
    /\ gm_pc = "invoke" /\ gm_node = "github_research"
    /\ \E out \in GithubOutcomes :
          /\ GmAdvance("github_research", github_research(gm_state, gm_env, out))
          /\ gm_obs' = [gm_obs EXCEPT !.research = out]
    /\ UNCHANGED <<sys, svcVars, lcVars, fmt, pollVars, agentsVars, srvVars, apiVars, gm_pc, gm_env, gm_result, runs, slack_posts>>

GmNotionTask ==
    /\ gm_pc = "invoke" /\ gm_node = "notion_task"
    /\ \E out \in NotionNodeOutcomes :
          GmAdvance("notion_task", notion_task(gm_state, gm_env, out))
    /\ UNCHANGED <<sys, svcVars, lcVars, fmt, pollVars, agentsVars, srvVars, apiVars, gm_pc, gm_env, gm_obs, gm_result, runs, slack_posts>>

\* SlackResponseAgent.process: format, summarise, send through the first
\* Slack tool that is there; list_available_tools may raise before the send
GmSlackResponse ==
    /\ gm_pc = "invoke" /\ gm_node = "slack_response"
    /\ \E out \in FormatOutcomes, listing_raises \in BOOLEAN :
          LET tool == IF out = "raise" \/ listing_raises
                      THEN "none" ELSE SlackToolUsed(gm_state, gm_env)
              res  == IF listing_raises /\ gm_env.tool_manager
                         /\ Truthy(gm_state.thread_ts) /\ Truthy(gm_state.user_id)
                      THEN "raise" ELSE out
          IN  /\ GmAdvance("slack_response", gm_slack_response(gm_state, res))
              /\ slack_posts' = IF tool # "none"
                                THEN Append(slack_posts, <<tool, 1>>)
                                ELSE slack_posts
    /\ UNCHANGED <<sys, svcVars, lcVars, fmt, pollVars, agentsVars, srvVars, apiVars, gm_pc, gm_env, gm_obs, gm_result, runs>>

\* process_query after graph.ainvoke: the final state, or the error
\* response of the except branch
GmReturn ==
    /\ gm_pc = "invoke" /\ gm_node \in {"END", "EXC"}
    /\ gm_result' = IF gm_node = "END"
                    THEN [raised |-> FALSE, response |-> gm_state.response, error |-> "None"]
                    ELSE [raised |-> FALSE, response |-> "error_response", error |-> "exception"]
    /\ gm_pc' = "returned"
    /\ UNCHANGED <<sys, svcVars, lcVars, fmt, pollVars, agentsVars, srvVars, apiVars, gm_env, gm_obs, gm_state, gm_node, gm_trace, runs, slack_posts>>

GmEnvs == [tool_manager : BOOLEAN, tools : SUBSET McpTools]

\* process_query(query, user_id, thread_ts) on a fresh GraphManager
GmInit ==
    /\ gm_pc = "call"
    /\ gm_env \in GmEnvs
    /\ \E u \in {"None", "U1"}, t \in {"None", "T1"} : gm_state = GmInitialState(u, t)
    /\ gm_node = "idle"
    /\ gm_trace = << >>
    /\ gm_result = NoResult
    /\ gm_obs = NoObservation

\* the graph build_graph declares, run from its controller node (the one
\* node without an incoming edge) inside process_query's try
GmGraphInit ==
    /\ gm_pc = "invoke"
    /\ gm_env \in GmEnvs
    /\ \E u \in {"None", "U1"}, t \in {"None", "T1"} : gm_state = GmInitialState(u, t)
    /\ gm_node = "controller"
    /\ gm_trace = << >>
    /\ gm_result = NoResult
    /\ gm_obs = NoObservation

GmIdle ==
    /\ gm_pc = "none"
    /\ gm_env = [tool_manager |-> FALSE, tools |-> { }]
    /\ gm_state = GmInitialState("None", "None")
    /\ gm_node = "idle"
    /\ gm_trace = << >>
    /\ gm_result = NoResult
    /\ gm_obs = NoObservation

----------------------------------------------------------------------------
(* mcp-client: SlackResponseAgent._summarize_content                       *)
(*                                                                         *)
(* A text is its paragraphs (what content.split("\n\n") gives), each with  *)
(* its character count and whether it holds one of the keywords; lengths   *)
(* are computed as Python's len() computes them.                           *)

\* max_length of _summarize_content; process calls it without the argument
MaxLengthDefault == 2000

\* characters the hard truncation keeps below max_length
TruncationMargin == 100

\* important_sections[:3]
MaxImportant == 3

\* paragraphs of the contents tried
NumParagraphs == 4

\* calls of _summarize_content on one content
NumRuns == 2

\* character counts of the paragraphs tried: two long paragraphs joined make
\* exactly max_length characters, three make more
ParagraphLens == {10, 999}

Paragraphs == [len : ParagraphLens, important : BOOLEAN]

Contents == UNION { [1..n -> Paragraphs] : n \in 1..NumParagraphs }

\* what llm.ainvoke gives back: a summary of some length, or an exception
LlmSummaries ==
    [raises : {FALSE}, len : {0, 1500, 2000, 2001, 6000}]
    \cup {[raises |-> TRUE, len |-> 0]}

Min(a, b) == IF a < b THEN a ELSE b

\* len(str(n))
RECURSIVE Digits(_)
Digits(n) == IF n < 10 THEN 1 ELSE 1 + Digits(n \div 10)

\* len("\n\n".join(c[i] for i in idx))
RECURSIVE JoinedLen(_, _)
JoinedLen(c, idx) ==
    IF idx = << >> THEN 0
    ELSE c[Head(idx)].len
         + (IF Len(idx) > 1 THEN 2 ELSE 0)
         + JoinedLen(c, Tail(idx))

\* len(content)
ContentLen(c) == JoinedLen(c, [i \in 1..Len(c) |-> i])

\* important_sections: the paragraphs that hold a keyword, in order
ImportantSections(c) ==
    SelectSeq([i \in 1..Len(c) |-> i], LAMBDA i : c[i].important)

\* what a pick of MaxImportant sections out of a set could be: any that
\* keeps their order
KeptSections_AnyThree(imp) ==
    { SelectSeq(imp, LAMBDA i : i \in S) :
        S \in { T \in SUBSET { imp[k] : k \in 1..Len(imp) } :
                  Cardinality(T) = Min(Len(imp), MaxImportant) } }

\* what important_sections[:3] can be: the slice of a list is its first
\* three entries
KeptSections(imp) == { SubSeq(imp, 1, Min(Len(imp), MaxImportant)) }

\* len(s[:k]) for len(s) = n
SliceLen(n, k) == IF k >= 0 THEN Min(n, k) ELSE (IF n + k > 0 THEN n + k ELSE 0)

\* len of the suffix f"\n\n...(<9 characters>{len(content)}<3 characters>": 2 + 4 + 9 + digits + 3
OmittedSuffixLen(content_len) == 18 + Digits(content_len)

\* the hard truncation cutting at max_length itself
TruncatedLen_NoMargin(llm_len, content_len, max_length) ==
    SliceLen(llm_len, max_length) + OmittedSuffixLen(content_len)

\* len(summarized_content[: max_length - 100] + suffix)
TruncatedLen(llm_len, content_len, max_length) ==
    SliceLen(llm_len, max_length - TruncationMargin) + OmittedSuffixLen(content_len)

\* _summarize_content(content, max_length) with `kept` the sections the
\* slice kept and `llm` the answer of llm.ainvoke: which return is taken,
\* the paragraphs returned (when paragraphs are), and the length returned
summarize_content(c, llm, kept, max_length) ==
    LET summary_parts == <<1>> \o kept
        extracted     == JoinedLen(c, summary_parts)
    IN  IF ContentLen(c) <= max_length
        THEN [path |-> "short", parts |-> [i \in 1..Len(c) |-> i], len |-> ContentLen(c)]
        ELSE IF extracted <= max_length
        THEN [path |-> "extraction", parts |-> summary_parts, len |-> extracted]
        ELSE IF llm.raises
        THEN [path |-> "raised", parts |-> << >>, len |-> 0]
        ELSE IF llm.len <= max_length
        THEN [path |-> "llm_summary", parts |-> << >>, len |-> llm.len]
        ELSE [path |-> "truncated", parts |-> << >>,
              len |-> TruncatedLen(llm.len, ContentLen(c), max_length)]

\* one call of _summarize_content(formatted_response)
SummarizeContent ==
    /\ sys = "summarize_content"
    /\ Len(fmt.outs) < NumRuns
    /\ \E kept \in KeptSections(ImportantSections(fmt.content)) :
          fmt' = [fmt EXCEPT !.outs =
                    Append(@, summarize_content(fmt.content, fmt.llm, kept, MaxLengthDefault))]
    /\ UNCHANGED <<sys, svcVars, agentsVars, srvVars, apiVars, pollVars, gmVars, lcVars, runs, slack_posts>>

FmtInit ==
    \E c \in Contents, llm \in LlmSummaries :
        fmt = [content |-> c, llm |-> llm, outs |-> << >>]

FmtIdle ==
    fmt = [content |-> << >>, llm |-> [raises |-> TRUE, len |-> 0], outs |-> << >>]

----------------------------------------------------------------------------
(* langchain_mcp: WorkflowManager.create_workflow_graph                    *)

\* QueryRouter.analyze_query's result before the LLM has answered
NoLcAnalysis ==
    [agent_type |-> "none", need_db_search |-> FALSE, need_code_review |-> FALSE]

\* the state dict graph.invoke is given: query, and channel_id or not
LcInitialState(channel_id) ==
    [ analysis            |-> NoLcAnalysis,
      db_search_results   |-> "None",
      code_review_results |-> "None",
      agent_response      |-> "None",
      channel_id          |-> channel_id,
      status              |-> "None" ]

\* the LLM's analysis text, by the keywords _parse_analysis looks for:
\*   github    the first branch's words (github, code, review)
\*   database  the second branch's words other than kensaku (database, db, log)
\*   kensaku   the word for "search" that both the second branch and the
\*             action test look for
\*   search    search / query
\*   notion    the third branch's words (notion, task, create)
\*   bug       the words for error, bug, defect
AnalysisTexts ==
    [github : BOOLEAN, database : BOOLEAN, kensaku : BOOLEAN,
     search : BOOLEAN, notion : BOOLEAN, bug : BOOLEAN]

\* QueryRouter._parse_analysis
parse_analysis(text) ==
    LET agent_type == IF text.github THEN "github"
                      ELSE IF text.database \/ text.kensaku THEN "database"
                      ELSE IF text.notion THEN "notion"
                      ELSE "default"
    IN  [ agent_type       |-> agent_type,
          need_db_search   |-> agent_type = "database" \/ text.kensaku \/ text.search,
          need_code_review |-> agent_type = "github" \/ text.bug ]

lc_analyze_query(st, text) == [st EXCEPT !.analysis = parse_analysis(text)]

search_database(st) == [st EXCEPT !.db_search_results = "dummy_search_results"]

lc_review_github_code(st) == [st EXCEPT !.code_review_results = "dummy_code_review"]

\* QueryRouter.route_to_agent: a fixed dict for database and notion, the
\* answer of a ReAct agent otherwise
route_to_agent(st) ==
    [st EXCEPT !.agent_response =
        CASE st.analysis.agent_type = "database" -> "database_not_implemented"
          [] st.analysis.agent_type = "notion"   -> "notion_not_implemented"
          [] OTHER                               -> "react_agent_answer"]

\* create_notion_task: every branch is `pass`
lc_create_notion_task(st) == st

\* agent_response.get("response", default): the ReAct agent's answer has no
\* "response" key
LcResponseText(st) ==
    IF st.agent_response = "react_agent_answer" THEN "processing_done"
    ELSE st.agent_response

lc_send_slack_response(st) == [st EXCEPT !.status = "complete"]

\* nodes of create_workflow_graph that set "agent_response"
AgentResponseWriters == {"route_to_agent"}

should_search_database(st) ==
    IF st.analysis.need_db_search THEN "search_database"
    ELSE IF st.analysis.need_code_review THEN "review_github_code"
    ELSE "route_to_agent"

\* after_db_search that goes on to route_to_agent whatever the analysis says
after_db_search_skips_review(st) == "route_to_agent"

after_db_search(st) ==
    IF st.analysis.need_code_review THEN "review_github_code" ELSE "route_to_agent"

\* edges of create_workflow_graph
LcRouteAfter(n, st) ==
    CASE n = "analyze_query"       -> should_search_database(st)
      [] n = "search_database"     -> after_db_search(st)
      [] n = "review_github_code"  -> "route_to_agent"
      [] n = "route_to_agent"      -> "create_notion_task"
      [] n = "create_notion_task"  -> "send_slack_response"
      [] n = "send_slack_response" -> "END"

LcAdvance(n, st) ==
    /\ lc_state' = st
    /\ lc_trace' = Append(lc_trace, n)
    /\ lc_node' = LcRouteAfter(n, st)

\* a node raised: no node of this graph has a try, the run ends there
LcRaise(n) ==
    /\ lc_node' = "EXC"
    /\ lc_trace' = Append(lc_trace, n)
    /\ UNCHANGED lc_state

LcAnalyzeQuery ==
    /\ sys = "langchain_mcp" /\ lc_node = "analyze_query"
    /\ \/ \E text \in AnalysisTexts : LcAdvance("analyze_query", lc_analyze_query(lc_state, text))
       \/ LcRaise("analyze_query")
    /\ UNCHANGED <<sys, svcVars, agentsVars, srvVars, apiVars, pollVars, gmVars, fmt, lc_sends, runs, slack_posts>>

LcSearchDatabase ==
    /\ sys = "langchain_mcp" /\ lc_node = "search_database"
    /\ LcAdvance("search_database", search_database(lc_state))
    /\ UNCHANGED <<sys, svcVars, agentsVars, srvVars, apiVars, pollVars, gmVars, fmt, lc_sends, runs, slack_posts>>

LcReviewGithubCode ==
    /\ sys = "langchain_mcp" /\ lc_node = "review_github_code"
    /\ LcAdvance("review_github_code", lc_review_github_code(lc_state))
    /\ UNCHANGED <<sys, svcVars, agentsVars, srvVars, apiVars, pollVars, gmVars, fmt, lc_sends, runs, slack_posts>>

\* the ReAct agents of the github and default routes may raise
LcRouteToAgent ==
    /\ sys = "langchain_mcp" /\ lc_node = "route_to_agent"
    /\ \/ LcAdvance("route_to_agent", route_to_agent(lc_state))
       \/ /\ lc_state.analysis.agent_type \in {"github", "default"}
          /\ LcRaise("route_to_agent")
    /\ UNCHANGED <<sys, svcVars, agentsVars, srvVars, apiVars, pollVars, gmVars, fmt, lc_sends, runs, slack_posts>>

LcCreateNotionTask ==
    /\ sys = "langchain_mcp" /\ lc_node = "create_notion_task"
    /\ LcAdvance("create_notion_task", lc_create_notion_task(lc_state))
    /\ UNCHANGED <<sys, svcVars, agentsVars, srvVars, apiVars, pollVars, gmVars, fmt, lc_sends, runs, slack_posts>>

\* send_slack_response: with a channel_id the text goes to
\* SlackAgent.send_response, which may raise
LcSendSlackResponse ==
    /\ sys = "langchain_mcp" /\ lc_node = "send_slack_response"
    /\ \/ /\ LcAdvance("send_slack_response", lc_send_slack_response(lc_state))
          /\ lc_sends' = IF Truthy(lc_state.channel_id)
                         THEN Append(lc_sends, LcResponseText(lc_state))
                         ELSE lc_sends
       \/ /\ Truthy(lc_state.channel_id)
          /\ LcRaise("send_slack_response")
          /\ UNCHANGED lc_sends
    /\ UNCHANGED <<sys, svcVars, agentsVars, srvVars, apiVars, pollVars, gmVars, fmt, runs, slack_posts>>

\* graph.invoke from the entry point set_entry_point names
LcInit ==
    /\ \E ch \in {"None", "C1"} : lc_state = LcInitialState(ch)
    /\ lc_node = "analyze_query"
    /\ lc_trace = << >>
    /\ lc_sends = << >>

LcIdle ==
    /\ lc_state = LcInitialState("None")
    /\ lc_node = "END"
    /\ lc_trace = << >>
    /\ lc_sends = << >>

----------------------------------------------------------------------------
(* ai_agent: NotionService.create_task                                     *)

\* what __init__ leaves behind: test_mode, whether a client was built (never
\* in test mode) and whether database_id was set, which is when
\* database_id_no_hyphens exists
NsEnvs ==
    { e \in [test_mode : BOOLEAN, client : BOOLEAN, has_no_hyphens : BOOLEAN] :
        e.test_mode => ~e.client }

\* self.client.pages.create answers with a page or raises
PageOutcomes == {"page", "raise"}

\* _try_create_page: the id of the created page; an exception is logged and
\* raised again
try_create_page(out) ==
    [raised |-> out = "raise", value |-> IF out = "raise" THEN "None" ELSE "page_id"]

NsReturn(value, attempts) == [raised |-> FALSE, value |-> value, attempts |-> attempts]

\* the handler of the second attempt lets the exception through
create_task_reraises(env, o1, o2) ==
    IF env.test_mode THEN NsReturn("dummy_id", << >>)
    ELSE IF ~env.client THEN NsReturn("None", << >>)
    ELSE IF ~try_create_page(o1).raised
    THEN NsReturn(try_create_page(o1).value, <<"database_id">>)
    ELSE IF ~env.has_no_hyphens THEN NsReturn("None", <<"database_id">>)
    ELSE IF ~try_create_page(o2).raised
    THEN NsReturn(try_create_page(o2).value, <<"database_id", "database_id_no_hyphens">>)
    ELSE [raised |-> TRUE, value |-> "None",
          attempts |-> <<"database_id", "database_id_no_hyphens">>]

\* create_task: a dummy id in test mode, None without a client, else the
\* page id of the attempt with database_id, and after its failure the page
\* id of the attempt with database_id_no_hyphens (None when that fails too
\* or when the attribute does not exist)
create_task(env, o1, o2) ==
    IF env.test_mode THEN NsReturn("dummy_id", << >>)
    ELSE IF ~env.client THEN NsReturn("None", << >>)
    ELSE IF ~try_create_page(o1).raised
    THEN NsReturn(try_create_page(o1).value, <<"database_id">>)
    ELSE IF ~env.has_no_hyphens THEN NsReturn("None", <<"database_id">>)
    ELSE IF ~try_create_page(o2).raised
    THEN NsReturn(try_create_page(o2).value, <<"database_id", "database_id_no_hyphens">>)
    ELSE NsReturn("None", <<"database_id", "database_id_no_hyphens">>)

NoNsCall == [o1 |-> "none", o2 |-> "none", result |-> NsReturn("None", << >>)]

\* one call of create_task, with what pages.create does on each attempt
NsCreateTask ==
    /\ sys = "notion_service" /\ ns.pc = "call"
    /\ \E o1 \in PageOutcomes, o2 \in PageOutcomes :
          ns' = [ns EXCEPT !.pc = "returned",
                           !.call = [o1 |-> o1, o2 |-> o2,
                                     result |-> create_task(ns.env, o1, o2)]]
    /\ UNCHANGED <<sys, agentsVars, srvVars, apiVars, pollVars, gmVars, lcVars, dbs, xs, rp,
                   fmt, runs, slack_posts>>

NsInit == \E env \in NsEnvs : ns = [pc |-> "call", env |-> env, call |-> NoNsCall]

NsIdle == ns = [pc |-> "none", env |-> [test_mode |-> FALSE, client |-> FALSE,
                                        has_no_hyphens |-> FALSE],
                call |-> NoNsCall]

----------------------------------------------------------------------------
(* ai_agent: DBService, one instance used by concurrently processed        *)
(* mentions (DatabaseAgent.db_service under asyncio.gather)                *)

\* calls of execute_query, list_tables or get_table_schema in flight at once
NumCallers == 2

Callers == 1..NumCallers

\* asyncpg.create_pool answers with a pool or raises
CreatePoolOutcomes == {"pool", "raise"}

\* the head of execute_query, list_tables and get_table_schema, up to the
\* first suspension: the mock answer in test mode; `if not self.pool` sends
\* the call into initialize(), which awaits create_pool; with a pool the
\* call goes on to self.pool.acquire()
DbsCall(c) ==
    /\ sys = "db_service" /\ dbs.pc[c] = "start"
    /\ dbs' = [dbs EXCEPT !.pc[c] = IF dbs.test_mode THEN "done"
                                    ELSE IF dbs.pool = 0 THEN "create_pool"
                                    ELSE "acquire"]
    /\ UNCHANGED <<sys, agentsVars, srvVars, apiVars, pollVars, gmVars, lcVars, ns, xs, rp,
                   fmt, runs, slack_posts>>

\* initialize() resumes: create_pool has built a pool, which is assigned to
\* self.pool, or it raised and the call returns its error result
DbsInitialize(c) ==
    /\ sys = "db_service" /\ dbs.pc[c] = "create_pool"
    /\ \E out \in CreatePoolOutcomes :
          dbs' = IF out = "pool"
                 THEN [dbs EXCEPT !.created = @ + 1, !.pool = dbs.created + 1,
                                  !.pc[c] = "acquire"]
                 ELSE [dbs EXCEPT !.pc[c] = "done"]
    /\ UNCHANGED <<sys, agentsVars, srvVars, apiVars, pollVars, gmVars, lcVars, ns, xs, rp,
                   fmt, runs, slack_posts>>

\* the statement runs on a connection of self.pool and the call returns
DbsAcquire(c) ==
    /\ sys = "db_service" /\ dbs.pc[c] = "acquire"
    /\ dbs' = [dbs EXCEPT !.pc[c] = "done"]
    /\ UNCHANGED <<sys, agentsVars, srvVars, apiVars, pollVars, gmVars, lcVars, ns, xs, rp,
                   fmt, runs, slack_posts>>

\* DBService(): no pool; pool 0 stands for None, pool n for the n-th pool
\* create_pool built
DbsInit ==
    \E tm \in BOOLEAN :
        dbs = [test_mode |-> tm, pool |-> 0, created |-> 0,
               pc |-> [c \in Callers |-> "start"]]

DbsIdle ==
    dbs = [test_mode |-> FALSE, pool |-> 0, created |-> 0,
           pc |-> [c \in Callers |-> "none"]]

----------------------------------------------------------------------------
(* mcp-client: MCPClient._process_cross_server_query                       *)

\* the connection state of an MCPClient: current_server, and the server and
\* liveness of the ClientSession held in self.session
Connected(server) ==
    [current_server |-> server, session |-> [server |-> server, open |-> TRUE]]

\* servers a client can be connected to when the call starts: one of the
\* schema's servers, or "custom" after a connection by script path
OriginalServers == {"slack", "github", "notionApi", "custom"}

\* connect_to_server(server_name=...): the schema file or its entry is
\* missing (ValueError before any assignment); stdio_client raises after
\* current_server was assigned; the session is entered and initialize() or
\* list_tools() raises; or the connection is made
ConnectOutcomes == {"ok", "no_schema", "transport_fails", "initialize_fails"}

connect_to_server(c, server_name, out) ==
    CASE out = "no_schema" -> [c |-> c, raised |-> TRUE]
      [] out = "transport_fails" ->
            [c |-> [c EXCEPT !.current_server = server_name], raised |-> TRUE]
      [] out = "initialize_fails" -> [c |-> Connected(server_name), raised |-> TRUE]
      [] out = "ok" -> [c |-> Connected(server_name), raised |-> FALSE]

\* cleanup: exit_stack.aclose() closes every transport and session entered
\* on the stack; self.session keeps pointing at the closed session
cleanup(c) == [c EXCEPT !.session.open = FALSE]

\* what the environment does during one call: the outcome of each connect
\* (the schema of the original server was there when it was connected), of
\* _extract_github_info (no issue found, issue found, or it raises) and of
\* _create_notion_task
CrossInputs ==
    [github : ConnectOutcomes, extract : {"no_task", "needs_task", "raise"},
     notion : ConnectOutcomes, task : {"ok", "raise"},
     slack : ConnectOutcomes, restore : ConnectOutcomes \ {"no_schema"}]

\* steps 1 to 5, inside the inner try: the connection state when the block
\* is left, normally or by an exception (posting to Slack does not change it)
CrossSteps(c0, in) ==
    LET s1 == connect_to_server(c0, "github", in.github)
        s3 == connect_to_server(cleanup(s1.c), "notionApi", in.notion)
        c4 == IF in.extract = "needs_task" THEN s3.c ELSE s1.c
        s5 == connect_to_server(cleanup(c4), "slack", in.slack)
    IN  IF s1.raised \/ in.extract = "raise" THEN s1.c
        ELSE IF in.extract = "needs_task" /\ (s3.raised \/ in.task = "raise") THEN s3.c
        ELSE s5.c

\* _process_cross_server_query: the steps, then the reconnect, made only
\* when current_server differs from the original and only for the three
\* named servers; an exception of the reconnect is caught by the outer try
process_cross_server_query(c0, in) ==
    LET original_server == c0.current_server
        c == CrossSteps(c0, in)
    IN  IF original_server # c.current_server
        THEN (IF original_server \in {"slack", "github", "notionApi"}
              THEN connect_to_server(cleanup(c), original_server, in.restore).c
              ELSE cleanup(c))
        ELSE c

XsProcessCrossServerQuery ==
    /\ sys = "cross_server" /\ xs.pc = "call"
    /\ \E in \in CrossInputs :
          xs' = [xs EXCEPT !.pc = "returned", !.input = in,
                           !.client = process_cross_server_query(xs.client, in)]
    /\ UNCHANGED <<sys, agentsVars, srvVars, apiVars, pollVars, gmVars, lcVars, ns, dbs, rp,
                   fmt, runs, slack_posts>>

NoCrossInput ==
    [github |-> "ok", extract |-> "no_task", notion |-> "ok", task |-> "ok",
     slack |-> "ok", restore |-> "ok"]

XsInit ==
    \E server \in OriginalServers :
        xs = [pc |-> "call", original |-> server, client |-> Connected(server),
              input |-> NoCrossInput]

XsIdle ==
    xs = [pc |-> "none", original |-> "None", client |-> Connected("None"),
          input |-> NoCrossInput]

----------------------------------------------------------------------------
(* mcp-client: SlackService.reply_to_slack_thread and                      *)
(* MCPClient._reply_to_slack_thread (the same message building), on the    *)
(* paragraph lengths of a content as above                                 *)

\* len(content) above which the reply is summarised
ReplyThreshold == 2000

\* character counts of the user ids tried
UserIdLens == {9, 11}

\* len(f"<@{user_id}>")
UserMentionLen(user_id_len) == 3 + user_id_len

\* len of the summarised message: the mention, the 11 characters of the
\* heading, the first paragraph and important_sections[:3] joined by blank
\* lines, and the closing note of 20 characters and len(content) in digits
SummarisedReplyLen(c, user_id_len) ==
    LET imp           == ImportantSections(c)
        summary_parts == <<1>> \o SubSeq(imp, 1, Min(Len(imp), MaxImportant))
    IN  UserMentionLen(user_id_len) + 11 + JoinedLen(c, summary_parts)
        + 20 + Digits(ContentLen(c))

\* len(message)
ReplyMessageLen(c, user_id_len) ==
    IF ContentLen(c) > ReplyThreshold
    THEN SummarisedReplyLen(c, user_id_len)
    ELSE UserMentionLen(user_id_len) + 2 + ContentLen(c)

\* the tool listing raises, or it holds slack_reply_to_thread or not
ReplyToolOutcomes == {"raise", "slack_reply_to_thread", "slack_post_message"}

NotSent == [tool |-> "none", len |-> 0]

\* reply_to_slack_thread: nothing is sent without a default channel or when
\* the listing raises; else the message goes to the thread tool, or to
\* slack_post_message when the thread tool is not offered
reply_to_slack_thread(c, user_id_len, has_channel, out) ==
    IF ~has_channel \/ out = "raise" THEN NotSent
    ELSE [tool |-> out, len |-> ReplyMessageLen(c, user_id_len)]

ReplyToSlackThread ==
    /\ sys = "reply_thread" /\ rp.pc = "call"
    /\ \E out \in ReplyToolOutcomes :
          rp' = [rp EXCEPT !.pc = "returned",
                           !.sent = reply_to_slack_thread(rp.content, rp.user_id_len,
                                                          rp.has_channel, out)]
    /\ UNCHANGED <<sys, agentsVars, srvVars, apiVars, pollVars, gmVars, lcVars, ns, dbs, xs,
                   fmt, runs, slack_posts>>

RpInit ==
    \E c \in Contents, u \in UserIdLens, ch \in BOOLEAN :
        rp = [pc |-> "call", content |-> c, user_id_len |-> u, has_channel |-> ch,
              sent |-> NotSent]

RpIdle ==
    rp = [pc |-> "none", content |-> <<[len |-> 10, important |-> FALSE]>>,
          user_id_len |-> 9, has_channel |-> FALSE, sent |-> NotSent]

----------------------------------------------------------------------------
(* Specification                                                           *)

SvcIdle == NsIdle /\ DbsIdle /\ XsIdle /\ RpIdle

OthersIdle ==
    AgentsIdle /\ SrvIdle /\ ApiIdle /\ PollIdle /\ GmIdle /\ LcIdle /\ FmtIdle

Init ==
    /\ runs = << >>
    /\ slack_posts = << >>
    /\ \/ /\ sys = "agents" /\ AgentsInit /\ SrvIdle /\ ApiIdle /\ PollIdle /\ GmIdle
          /\ LcIdle /\ FmtIdle /\ SvcIdle
       \/ /\ sys = "api" /\ AgentsIdle /\ SrvIdle /\ ApiInit /\ PollIdle /\ GmIdle
          /\ LcIdle /\ FmtIdle /\ SvcIdle
       \/ /\ sys = "poller" /\ AgentsIdle /\ SrvIdle /\ PollInit /\ GmIdle
          /\ LcIdle /\ FmtIdle /\ SvcIdle
          /\ api_pc = "none" /\ cl_pc = "none" /\ cl_batch = << >> /\ cl_analysis = NoAnalysis
          /\ queue = [i \in 1..NumMentions |-> i]
       \/ /\ sys = "process_query" /\ AgentsIdle /\ SrvIdle /\ ApiIdle /\ PollIdle /\ GmInit
          /\ LcIdle /\ FmtIdle /\ SvcIdle
       \/ /\ sys = "mcp_client_graph" /\ AgentsIdle /\ SrvIdle /\ ApiIdle /\ PollIdle
          /\ GmGraphInit /\ LcIdle /\ FmtIdle /\ SvcIdle
       \/ /\ sys = "langchain_mcp" /\ AgentsIdle /\ SrvIdle /\ ApiIdle /\ PollIdle /\ GmIdle
          /\ LcInit /\ FmtIdle /\ SvcIdle
       \/ /\ sys = "summarize_content" /\ AgentsIdle /\ SrvIdle /\ ApiIdle /\ PollIdle
          /\ GmIdle /\ LcIdle /\ FmtInit /\ SvcIdle
       \/ /\ sys = "notion_service" /\ OthersIdle
          /\ NsInit /\ DbsIdle /\ XsIdle /\ RpIdle
       \/ /\ sys = "db_service" /\ OthersIdle
          /\ NsIdle /\ DbsInit /\ XsIdle /\ RpIdle
       \/ /\ sys = "cross_server" /\ OthersIdle
          /\ NsIdle /\ DbsIdle /\ XsInit /\ RpIdle
       \/ /\ sys = "reply_thread" /\ OthersIdle
          /\ NsIdle /\ DbsIdle /\ XsIdle /\ RpInit

Next ==
    \/ AnalyzeQuery
    \/ GenerateSql
    \/ ConfirmSql
    \/ ExecuteSql
    \/ ReviewGithubCode
    \/ SlackResponse
    \/ SrvAnalyzeIntent
    \/ SrvGenerateSlackResponse
    \/ SrvEvaluateNotionNeed
    \/ SrvCreateNotionTask
    \/ SrvSendSlackResponse
    \/ HandleMention
    \/ ClReceive
    \/ ClAnalyzeMessage
    \/ ClReply
    \/ ClFollowUp
    \/ ClSleep
    \/ PollReceive
    \/ \E id \in MentionIds : DbProcess(id)
    \/ \E id \in MentionIds : McpAnalysis(id)
    \/ \E id \in MentionIds : McpReply(id)
    \/ \E id \in MentionIds : McpFollowUp(id)
    \/ PollGathered
    \/ HandleShutdown
    \/ PollExit
    \/ GmBuildGraph
    \/ GmController
    \/ GmDbQuery
    \/ GmGithubResearch
    \/ GmNotionTask
    \/ GmSlackResponse
    \/ GmReturn
    \/ LcAnalyzeQuery
    \/ LcSearchDatabase
    \/ LcReviewGithubCode
    \/ LcRouteToAgent
    \/ LcCreateNotionTask
    \/ LcSendSlackResponse
    \/ SummarizeContent
    \/ NsCreateTask
    \/ \E c \in Callers : DbsCall(c)
    \/ \E c \in Callers : DbsInitialize(c)
    \/ \E c \in Callers : DbsAcquire(c)
    \/ XsProcessCrossServerQuery
    \/ ReplyToSlackThread

Spec == Init /\ [][Next]_vars

\* the nodes of the agents graph, which LangGraph runs one after the other
\* until END
AgentsStep ==
    \/ AnalyzeQuery
    \/ GenerateSql
    \/ ConfirmSql
    \/ ExecuteSql
    \/ ReviewGithubCode
    \/ SlackResponse

\* the steps the event loop runs for poll_elasticmq and the process_mention
\* coroutines it gathers; the shutdown signal is not one of them
PollStep ==
    \/ PollReceive
    \/ \E id \in MentionIds : DbProcess(id)
    \/ \E id \in MentionIds : McpAnalysis(id)
    \/ \E id \in MentionIds : McpReply(id)
    \/ \E id \in MentionIds : McpFollowUp(id)
    \/ PollGathered
    \/ PollExit

\* every step outside the program's control returns (each awaited call
\* resolves or times out) and the runtime runs a step that is ready, so an
\* enabled step of the graph or of the poller is eventually taken
FairSpec == Spec /\ WF_vars(AgentsStep) /\ WF_vars(PollStep)

----------------------------------------------------------------------------
(* Claims: agents workflow                                                 *)

HasMessage(s, content) == \E i \in 1..Len(s.messages) : s.messages[i].content = content

\* C1: every run of the agents graph executes slack_response (one call of
\* SlackAgent.send_message) exactly once and then reaches END: never more
\* than one send, exactly one at END, and END is always reached.
C1_OneSlackSendThenEnd ==
    /\ [](sys = "agents" =>
            /\ Len(slack_sends) = Count(trace, "slack_response")
            /\ Len(slack_sends) <= 1
            /\ (node = "END" => Len(slack_sends) = 1 /\ Last(trace) = "slack_response"))
    /\ (sys = "agents" ~> node = "END")

\* a run in which generate_sql caught an exception has ended with its send
C1_Witness ==
    /\ sys = "agents" /\ node = "END"
    /\ HasMessage(state, "sql_generation_exception")
    /\ Len(slack_sends) = 1

\* C2: DatabaseAgent.execute is called only in a state where sql_confirmed
\* is True and generated_sql is non-empty, and database_result differs from
\* its initial empty value only if sql_confirmed is True.
C2_ConfirmationGate ==
    sys = "agents" =>
        /\ \A i \in 1..Len(db_calls) :
              db_calls[i].confirmed /\ Truthy(db_calls[i].generated_sql)
        /\ (state.database_result # "" => state.sql_confirmed)

\* the database returned rows for an approved statement
C2_Witness ==
    /\ sys = "agents"
    /\ Len(db_calls) = 1
    /\ state.database_result = "rows"
    /\ "confirm_sql" \in { trace[i] : i \in 1..Len(trace) }

\* C3: the statement run against the database by execute_sql is exactly the
\* statement in state.generated_sql that confirm_sql approved.
C3_RunsConfirmedStatement ==
    sys = "agents" =>
        \A i \in 1..Len(db_calls) :
            db_calls[i].ran \in SqlTexts => db_calls[i].ran = db_calls[i].generated_sql

\* C4: for each of the 8 combinations of the route flags, with SQL
\* generation and confirmation succeeding, the run visits exactly the steps
\* the transition table of section 4.7 predicts and then ends.
TablePath(data, review, task) ==
    LET codePath == IF review
                    THEN <<"Researched">> \o (IF task THEN <<"TaskCreated">> ELSE << >>)
                    ELSE << >>
    IN  <<"Classified">>
        \o (IF data THEN <<"SqlGenerated", "Confirm", "Executed">> ELSE << >>)
        \o codePath
        \o <<"Formatting">>

TableStateOf(n) ==
    CASE n = "analyze_query"      -> "Classified"
      [] n = "generate_sql"       -> "SqlGenerated"
      [] n = "confirm_sql"        -> "Confirm"
      [] n = "execute_sql"        -> "Executed"
      [] n = "review_github_code" -> "Researched"
      [] n = "slack_response"     -> "Formatting"

C4_RoutingFollowsTable ==
    (/\ sys = "agents" /\ node = "END"
     /\ (state.is_need_data => Truthy(state.generated_sql) /\ state.sql_confirmed))
    => [i \in 1..Len(trace) |-> TableStateOf(trace[i])]
         = TablePath(state.is_need_data, state.is_need_code_review, needs_task)

\* the Slack messages posted for mention id
PostsFor(id) == Count([i \in 1..Len(slack_posts) |-> slack_posts[i][2]], id)

\* C5: every mention the queue poller handed to process_mention, once
\* process_mention has returned for it, has exactly one Slack reply posted,
\* on the database branch, on the MCP branch and when a downstream call failed
C5_OneReplyPerMention ==
    sys = "poller" =>
        \A id \in MentionIds : mentions[id].pc = "returned" => PostsFor(id) = 1

\* C6: one POST /process-mention leads to at most one processing run and at
\* most one Slack reply, with the startup poller consuming the same queue
C6_AtMostOneRunAndReply ==
    sys = "api" => Len(runs) <= 1 /\ Len(slack_posts) <= 1

\* C7: a run of the GraphManager graph that has executed slack_response has
\* posted exactly one Slack message, whatever thread_ts, user_id and the
\* available Slack tools are
C7_OnePostPerSlackNode ==
    (gm_pc # "none" /\ Count(gm_trace, "slack_response") >= 1) =>
        Len(slack_posts) = 1

\* C8: a finished GraphManager.process_query call has returned a result
\* whose response is non-null; a failure of building or running the graph
\* is returned as an error response and not raised
C8_AlwaysReturnsResponse ==
    gm_pc \in {"returned", "raised"} =>
        /\ ~gm_result.raised
        /\ gm_result.response # "None"

\* C9: a finished GraphManager.process_query run has executed the controller
\* node, and executed it before every other node
C9_ControllerFirst ==
    (sys = "process_query" /\ gm_pc \in {"returned", "raised"}) =>
        /\ gm_trace # << >>
        /\ gm_trace[1] = "controller"

GraphNodes ==
    {"analyze_query", "generate_sql", "confirm_sql", "execute_sql",
     "review_github_code", "slack_response",
     "analyze_intent", "generate_slack_response", "evaluate_notion_need",
     "create_notion_task", "send_slack_response",
     "controller", "db_query", "github_research", "notion_task"}

\* C10: in the agents graph, the MCPServer graph and the GraphManager graph
\* no node is executed more than once within one request
C10_NoNodeTwice ==
    \A n \in GraphNodes :
        /\ Count(trace, n) <= 1
        /\ Count(srv_trace, n) <= 1
        /\ Count(gm_trace, n) <= 1

\* a GraphManager run through controller, github_research, notion_task and
\* slack_response (determine_query_type's task_creation case) has ended
C10_Witness ==
    /\ gm_node = "END"
    /\ gm_trace = <<"controller", "github_research", "notion_task", "slack_response">>

\* C11: in the mcp-client graph the response field is written only by the
\* terminal slack_response node: while that node has not run, no node has
\* written it
C11_ResponseOnlyBySlackNode ==
    (gm_pc = "invoke" /\ Count(gm_trace, "slack_response") = 0) =>
        gm_state.response = "None"

\* generate_sql has run and left no statement
SqlGenerationFailed ==
    /\ sys = "agents"
    /\ Count(trace, "generate_sql") >= 1
    /\ ~Truthy(state.generated_sql)

\* C12: when SQL generation fails the agents graph goes from generate_sql
\* straight to slack_response, confirm_sql and execute_sql do not run, the
\* text handed to the Slack send is the SQL-generation-failure message and
\* sql_confirmed keeps its initial value
C12_SqlGenerationFailureRoute ==
    SqlGenerationFailed =>
        /\ Count(trace, "confirm_sql") = 0
        /\ Count(trace, "execute_sql") = 0
        /\ Last(trace) = "generate_sql" => node = "slack_response"
        /\ \A i \in 1..Len(slack_sends) :
              slack_sends[i] \in {"sql_generation_failed", "sql_generation_exception"}
        /\ state.sql_confirmed = InitialState(FALSE).sql_confirmed

C12_Witness ==
    /\ SqlGenerationFailed
    /\ node = "END"
    /\ trace = <<"analyze_query", "generate_sql", "slack_response">>
    /\ slack_sends = <<"sql_generation_failed">>

\* C13: a request classified without a route flag runs analyze_query, then
\* slack_response, then END, ends with a single transcript entry and leaves
\* generated_sql, database_result and code_review_result empty
C13_SimpleRouteSingleEntry ==
    (sys = "agents" /\ node = "END" /\ ~state.is_need_data) =>
        /\ trace = <<"analyze_query", "slack_response">>
        /\ Len(state.messages) = 1
        /\ state.generated_sql = ""
        /\ state.database_result = ""
        /\ state.code_review_result = ""

\* the responses of NotionTaskAgent.process that say no task was created
NotionFailureTexts ==
    {"notion_exception_text", "notion_no_github_result",
     "notion_tool_unavailable", "notion_database_not_found"}

\* C14: when persisting the Notion task failed, the mcp-client run goes on
\* to slack_response and the response it carries says that task creation
\* failed, not that a task was created
C14_NotionFailureSurfaced ==
    (gm_pc = "invoke" /\ gm_trace # << >> /\ Last(gm_trace) = "notion_task"
        /\ gm_state.notion_result # "created") =>
        /\ gm_node = "slack_response"
        /\ gm_state.response \in NotionFailureTexts

InSeq(x, seq) == \E i \in 1..Len(seq) : seq[i] = x

\* C15: in MCPServer.process, when the Notion task was not persisted, the
\* reply does not say that a task was created and
\* final_result.notion_task_created is not true
C15_UnpersistedTaskNotAnnounced ==
    (srv_node = "END" /\ Count(srv_trace, "create_notion_task") = 1
        /\ srv_state.task_id = "None") =>
        /\ ~InSeq("notion_task_created_note", SrvResponseText(srv_state))
        /\ ~srv_state.final_result.notion_task_created

\* analyze_query has run and recorded a failed classification
ClassificationFailed ==
    /\ sys = "agents"
    /\ Len(trace) >= 1
    /\ Len(state.messages) >= 1
    /\ state.messages[1].agent_name = "error_handler"

ErrorDescriptions ==
    { ErrorMessageJa(t) : t \in LlmErrorTypes \cup {"empty_response", "unknown_proxy_error"} }

\* C16: when the LLM call of the classification fails, the result carries
\* an error description and is_need_data False, analyze_query ends normally
\* and the run takes the simple-reply route to slack_response
C16_ClassifierFailureSimpleReply ==
    ClassificationFailed =>
        /\ state.messages[1].content \in ErrorDescriptions
        /\ ~state.is_need_data
        /\ Count(trace, "generate_sql") = 0
        /\ Len(trace) = 1 => node = "slack_response"
        /\ node \in {"slack_response", "END"}

C16_Witness ==
    /\ ClassificationFailed
    /\ state.messages[1].content = ErrorMessageJa("timeout")
    /\ node = "END"
    /\ trace = <<"analyze_query", "slack_response">>

\* C17: a failing controller LLM call raises nothing to the orchestrator:
\* the graph run does not end on an exception, and a returned run has
\* executed slack_response and carries no error
C17_ControllerFailureContained ==
    /\ gm_node # "EXC"
    /\ (sys = "mcp_client_graph" /\ gm_pc = "returned") =>
          /\ Count(gm_trace, "slack_response") = 1
          /\ gm_result.error = "None"

Reports(n) == n # "review_github_code"

\* agent_name values a step gives to the message it appends
ReporterOf(n) ==
    CASE n = "analyze_query"  -> {"user_proxy", "error_handler"}
      [] n = "generate_sql"   -> {"database_generator"}
      [] n = "confirm_sql"    -> {"sql_confirmer"}
      [] n = "execute_sql"    -> {"database_executor"}
      [] n = "slack_response" -> {"slack_response", "slack_error"}

\* C18: in the agents workflow every step, failing or not, returns normally
\* and has appended exactly one message of its own to state.messages (the
\* failure text when it failed); no exception leaves the graph run
C18_StepFailuresCaught ==
    sys = "agents" =>
        LET steps == SelectSeq(trace, Reports) IN
        /\ Len(state.messages) = Len(steps)
        /\ \A i \in 1..Len(steps) :
              state.messages[i].agent_name \in ReporterOf(steps[i])
        /\ node \in {"analyze_query", "generate_sql", "confirm_sql", "execute_sql",
                     "review_github_code", "slack_response", "END"}

C18_Witness ==
    /\ sys = "agents"
    /\ node = "END"
    /\ HasMessage(state, "sql_execution_exception")
    /\ Len(state.messages) = 5

C20_ExecutesOnlyApproved ==
    sys = "poller" =>
        \A id \in MentionIds :
            \A i \in 1..Len(mentions[id].db_steps) :
                mentions[id].db_steps[i] = "execute_query" =>
                    \E j \in 1..(i - 1) : mentions[id].db_steps[j] = "sql_confirmation_approved"

\* C21: _summarize_content called with the default max_length returns, on
\* each of its four returns (short input, paragraph extraction, LLM summary,
\* hard truncation with the omitted-length suffix), a text of at most
\* max_length characters, whatever the content and whatever the LLM answers
C21_SummaryWithinMaxLength ==
    sys = "summarize_content" =>
        \A i \in 1..Len(fmt.outs) :
            fmt.outs[i].path # "raised" => fmt.outs[i].len <= MaxLengthDefault

C21_Witness ==
    /\ sys = "summarize_content"
    /\ Len(fmt.outs) >= 1
    /\ fmt.outs[1].path = "truncated"
    /\ fmt.llm.len = 6000
    /\ ContentLen(fmt.content) > MaxLengthDefault

\* texts that hold nothing but the Notion step's own report
NotionStepTexts ==
    {"notion_task_created", "notion_exception_text", "notion_no_github_result",
     "notion_tool_unavailable", "notion_database_not_found"}

\* C22: the reply sent to Slack holds the output of every step that ran for
\* the request: in the agents workflow each message appended before the send
\* is part of the text handed to SlackAgent.send_message, and in the
\* mcp-client graph a reply after GitHub research and Notion task creation
\* is more than the Notion step's report
C22_ReplyHoldsEveryStepOutput ==
    /\ (sys = "agents" /\ slack_sends # << >>) =>
          \A i \in 1..Len(state.messages) :
              state.messages[i].agent_name \notin {"slack_response", "slack_error"}
                 => state.messages[i].content = slack_sends[1]
    /\ (sys = "mcp_client_graph" /\ gm_node = "END"
          /\ InSeq("github_research", gm_trace) /\ InSeq("notion_task", gm_trace)
          /\ gm_obs.research.kind = "ok") =>
          gm_state.response \notin NotionStepTexts

C24_QueryTypeSetOnce ==
    (sys = "mcp_client_graph" /\ gm_obs.route # "") =>
        gm_state.query_type = gm_obs.route

\* C25: in the mcp-client graph notion_task has run only if the controller's
\* route was task creation and the research analysis held a follow-up
\* signal term
C25_NotionOnlyOnRouteAndSignal ==
    (sys = "mcp_client_graph" /\ InSeq("notion_task", gm_trace)) =>
        /\ gm_obs.route = "task_creation"
        /\ gm_obs.research.signal_terms

\* the transition table's path for an analysis
LcTablePath(a) ==
    <<"analyze_query">>
    \o (IF a.need_db_search THEN <<"search_database">> ELSE << >>)
    \o (IF a.need_code_review THEN <<"review_github_code">> ELSE << >>)
    \o <<"route_to_agent", "create_notion_task", "send_slack_response">>

IsPrefix(s, t) == Len(s) <= Len(t) /\ SubSeq(t, 1, Len(s)) = s

\* C26: in the langchain_mcp graph the nodes run along the transition table:
\* analyze_query, then search_database iff need_db_search, then
\* review_github_code iff need_code_review, then route_to_agent,
\* create_notion_task and send_slack_response once each in that order, and
\* END only after them
C26_LangchainRoutingFollowsTable ==
    (sys = "langchain_mcp" /\ lc_state.analysis # NoLcAnalysis) =>
        LET path == LcTablePath(lc_state.analysis) IN
        /\ IsPrefix(lc_trace, path)
        /\ lc_node = "END" => lc_trace = path
        /\ lc_node \notin {"END", "EXC"} => lc_node = path[Len(lc_trace) + 1]

C26_Witness ==
    /\ sys = "langchain_mcp"
    /\ lc_node = "END"
    /\ InSeq("search_database", lc_trace)
    /\ InSeq("review_github_code", lc_trace)
    /\ lc_state.status = "complete"

\* C27: in the agents workflow every step leaves state.messages as it is or
\* appends at its end: the messages there before are still there, in place
C27_MessagesAppendOnly ==
    [][sys = "agents" => IsPrefix(state.messages, state.messages')]_vars

C27_Witness ==
    /\ sys = "agents"
    /\ node = "END"
    /\ Len(state.messages) = 5
    /\ state.messages[1].agent_name = "user_proxy"
    /\ state.messages[5].agent_name = "slack_response"

\* C28: in the agents workflow sql_confirmed changes only in confirm_sql,
\* which runs at most once in a request, and once True it stays True
C28_ConfirmationOnlyForward ==
    [][sys = "agents" =>
         /\ (state.sql_confirmed' # state.sql_confirmed) =>
               (node = "confirm_sql" /\ ~InSeq("confirm_sql", trace))
         /\ state.sql_confirmed => state.sql_confirmed']_vars

C28_Witness ==
    /\ sys = "agents"
    /\ node = "END"
    /\ state.sql_confirmed
    /\ InSeq("execute_sql", trace)
    /\ InSeq("slack_response", trace)

\* the step `reader` in tr comes after a step of `writers`
WrittenBeforeStep(tr, reader, writers) ==
    \A i \in 1..Len(tr) :
        tr[i] = reader => \E j \in 1..(i - 1) : tr[j] \in writers

\* the routing condition out of `reader` in tr comes after a step of
\* `writers` (reader itself included)
WrittenBeforeRoute(tr, reader, writers) ==
    \A i \in 1..Len(tr) :
        tr[i] = reader => \E j \in 1..i : tr[j] \in writers

\* C29: a field a routing condition or a step reads has been written by an
\* earlier step on the path taken: is_need_code_review when the agents graph
\* routes out of execute_sql, agent_response when the langchain_mcp graph
\* runs send_slack_response, slack_response when the MCPServer graph runs
\* send_slack_response
C29_ReadsOnlyWrittenFields ==
    /\ sys = "agents" =>
          WrittenBeforeRoute(trace, "execute_sql", IsNeedCodeReviewWriters)
    /\ sys = "langchain_mcp" =>
          WrittenBeforeStep(lc_trace, "send_slack_response", AgentResponseWriters)
    /\ sys = "api" =>
          WrittenBeforeStep(srv_trace, "send_slack_response", SlackResponseWriters)

\* C30: GitHubResearchAgent.process does not raise and the graph goes on;
\* when the tool manager is missing, a tool call failed or an LLM call
\* failed, the response it returns is the text saying that the GitHub
\* information could not be obtained
C30_GithubFailureExplained ==
    (sys = "mcp_client_graph" /\ gm_trace # << >> /\ Last(gm_trace) = "github_research") =>
        /\ gm_node \in {"notion_task", "slack_response"}
        /\ (~gm_env.tool_manager \/ gm_obs.research.kind \in {"tool_failed", "error"})
              => gm_state.response = "github_error_text"

----------------------------------------------------------------------------
(* Claims: services                                                        *)

\* C31: NotionService.create_task never raises; it returns the page id when
\* an attempt succeeded and None when none did, and it makes at most two
\* page-creation attempts, the first with database_id and the second, once,
\* with database_id_no_hyphens
C31_CreateTaskNeverRaises ==
    ns.pc = "returned" =>
        LET r == ns.call.result IN
        /\ ~r.raised
        /\ IsPrefix(r.attempts, <<"database_id", "database_id_no_hyphens">>)
        /\ (r.value = "page_id") <=>
              \/ (Len(r.attempts) = 1 /\ ns.call.o1 = "page")
              \/ (Len(r.attempts) = 2 /\ ns.call.o2 = "page")
        /\ r.value \in {"page_id", "None", "dummy_id"}
        /\ r.value = "dummy_id" <=> ns.env.test_mode

\* both attempts were made and both failed
C31_Witness ==
    /\ ns.pc = "returned"
    /\ ns.call.result.attempts = <<"database_id", "database_id_no_hyphens">>
    /\ ns.call.o1 = "raise" /\ ns.call.o2 = "raise"
    /\ ns.call.result.value = "None"

----------------------------------------------------------------------------
(* Claims: mcp-client graph order, ai_agent database reply                 *)

\* C34: in the mcp-client graph notion_task never executes before
\* github_research has executed in the same request, and a request the
\* controller routed to db_query executes neither github_research nor
\* notion_task
C34_NotionAfterGithub ==
    /\ \A i \in 1..Len(gm_trace) :
          gm_trace[i] = "notion_task" =>
              \E j \in 1..(i - 1) : gm_trace[j] = "github_research"
    /\ gm_obs.route = "db_query" =>
          /\ ~InSeq("github_research", gm_trace)
          /\ ~InSeq("notion_task", gm_trace)

\* a task_creation request past notion_task
C34_Witness ==
    /\ gm_obs.route = "task_creation"
    /\ IsPrefix(<<"controller", "github_research", "notion_task">>, gm_trace)

\* C37: on the ai_agent database branch the reply of process_mention says
\* that a query was executed only if DatabaseAgent executed one
C37_ReplyClaimsOnlyExecutedQuery ==
    sys = "poller" =>
        \A id \in MentionIds :
            mentions[id].result \in {"query_executed", "query_fixed_and_executed"} =>
                InSeq("execute_query", mentions[id].db_steps)

\* C38: in the mcp-client graph no Notion page is created when the GitHub
\* research failed and github_result carries only an error
C38_NoPageAfterFailedResearch ==
    gm_state.github_result = "error" => gm_state.notion_result # "created"

\* C36: a DBService instance creates at most one connection pool over its
\* lifetime, also when several calls start before the pool exists
C36_AtMostOnePool ==
    dbs.created <= 1

----------------------------------------------------------------------------
(* Claims: ai_agent poller                                                 *)

\* C32: when the poller processes the mentions of one batch concurrently,
\* each mention's reply text and reply target (channel, thread) are derived
\* only from that mention's own data
C32_ReplyFromOwnMention ==
    sys = "poller" =>
        \A id \in MentionIds :
            mentions[id].reply # NoReply =>
                /\ mentions[id].reply.channel = MentionData(id).channel
                /\ mentions[id].reply.text = "analysis_of_" \o MentionData(id).text
                /\ mentions[id].reply.thread_ts =
                      IF MentionData(id).thread_ts # "None"
                      THEN MentionData(id).thread_ts ELSE MentionData(id).ts

\* one mention has been answered while another one of the same batch is
\* between its analysis and its reply
C32_Witness ==
    /\ sys = "poller"
    /\ \E a \in MentionIds, b \in MentionIds :
          /\ a # b
          /\ mentions[a].reply # NoReply
          /\ mentions[b].pc = "mcp_reply"
          /\ runs = <<(<<"process_mention", a>>), (<<"process_mention", b>>)>>

\* C39: receive_messages deletes every message it receives before it
\* returns: a message that has been received is no longer in the queue, so
\* it cannot be received a second time
C39_NoRedelivery ==
    sys = "poller" =>
        \A id \in MentionIds :
            mentions[id].received => \A i \in 1..Len(queue) : queue[i] # id

----------------------------------------------------------------------------
(* Claims: mcp-client MCPClient                                            *)

\* C33: after _process_cross_server_query returns, whether every step
\* succeeded or one raised, current_server is the server the client was
\* connected to before the call and session is an open session to it
C33_OriginalConnectionRestored ==
    xs.pc = "returned" =>
        /\ xs.client.current_server = xs.original
        /\ xs.client.session = [server |-> xs.original, open |-> TRUE]

\* C35: when content exceeds 2000 characters, the message that
\* SlackService.reply_to_slack_thread and MCPClient._reply_to_slack_thread
\* send is no longer than 2000 characters
C35_ThreadReplyWithinCeiling ==
    (rp.sent # NotSent /\ ContentLen(rp.content) > ReplyThreshold) =>
        rp.sent.len <= ReplyThreshold

====
